---- MODULE Spec2Model ----
(***************************************************************************)
(* monsterwm-xcb: the client / desktop / monitor model, the handlers of    *)
(* the event loop and the nested drag loop of src/monsterwm.c (the         *)
(* revision that starts at line 1426 of the file).                         *)
(*                                                                         *)
(* A client record lives at an address of the heap `clients`; NULL is 0.   *)
(* Every handler is an operator from a machine state S (a record holding   *)
(* monitors, clients, current_monitor, previous_monitor, the window        *)
(* system's map state and input focus, and the gateway commands issued so  *)
(* far) to the machine state after the handler has returned.               *)
(***************************************************************************)
EXTENDS Integers, Sequences, FiniteSets, TLC

\* ------------------------------------------------------------------ bounds
MaxWin   == 3      \* window handles are 1..MaxWin
MONITORS == 2      \* set at startup from the output topology
DESKTOPS == 2      \* config.h: number of desktop slots per monitor
MaxGrowth == 6     \* resize_stack is followed up to growth = +-MaxGrowth * GrowStep

\* --------------------------------------------------------------- constants
NULL    == 0
TILE    == 0
MONOCLE == 1
BSTACK  == 2
GRID    == 3
RESIZE  == 2
MOVE    == 3
DEFAULT_MONITOR == 0
DEFAULT_DESKTOP == 0
DEFAULT_MODE    == 0
WW == 100              \* monitor work-area width  (CM->ww)
WH == 80               \* monitor work-area height (CM->wh)
MasterPercent == 52    \* config.h: MASTER_SIZE, in hundredths
MINWSZ == 10           \* config.h: minimum window size
BORDER_WIDTH == 2      \* config.h: window border width
PANEL_HEIGHT == 8      \* config.h: height of the panel
TOP_PANEL == TRUE      \* config.h: the panel is at the top
MasterStep == 20       \* config.h keys: the argument of resize_master is +-MasterStep
GrowStep == 10         \* config.h keys: the argument of resize_stack is +-GrowStep
FineStep == 1          \* the smallest argument of resize_master and resize_stack

\* (mode == BSTACK ? wh : ww) * MASTER_SIZE, truncated to int.
MasterSizeOf(mode) == ((IF mode = BSTACK THEN WH ELSE WW) * MasterPercent) \div 100

Win      == 1..MaxWin
Addr     == 1..(2 * MaxWin)
Monitors == 0..(MONITORS - 1)
Desktops == 0..(DESKTOPS - 1)
Modes    == {TILE, MONOCLE, BSTACK, GRID}

VARIABLES
    probe,             \* a layout call: its arguments and the commands it sent
    monitors,          \* monitors[m]: the active context of m and its saved desktops
    clients,           \* the heap of client records
    current_monitor,
    previous_monitor,
    mapped,            \* windows the window system currently shows
    focus,             \* window holding the input focus (0: none set)
    display,           \* the window system's borders and stacking order
    config,            \* config.h: ATTACH_ASIDE, FOLLOW_WINDOW, FOLLOW_MOUSE, CLICK_TO_FOCUS
    pc,                \* "idle" (run waits), "drag" (mousemotion waits), "dead",
                       \* "exited" (main returned or exit was called)
    running,           \* run()'s loop goes on while it is set
    retval,            \* what main returns
    status,            \* the exit status once pc = "exited"
    dragarg,           \* MOVE or RESIZE while pc = "drag", else 0
    last,              \* the watched event or command handled last, and its commands
    watch              \* the kinds of events and commands that last records

vars == <<probe, monitors, clients, current_monitor, previous_monitor, mapped, focus,
          display, config, pc, running, retval, status, dragarg, last, watch>>

\* ------------------------------------------------------------ machine state
\* The machine state a handler starts from. fault: "none", "segv" (a null
\* pointer was dereferenced), "hang" (a loop that never ends), "ub" (undefined
\* behaviour). A handler stops at its first fault.
Machine ==
    [monitors |-> monitors, clients |-> clients,
     current_monitor |-> current_monitor, previous_monitor |-> previous_monitor,
     mapped |-> mapped, focus |-> focus, display |-> display, config |-> config,
     running |-> running, retval |-> retval,
     cmds |-> <<>>, ret |-> NULL, fault |-> "none"]

\* v bound to the parameter of F: the statements F after the value v.
Then(v, F(_)) == F(v)

\* calloc(1, sizeof(client)): every field zero.
ZeroClient ==
    [next |-> NULL, monitor |-> 0, isurgent |-> FALSE, istransient |-> FALSE,
     isfullscrn |-> FALSE, isfloating |-> FALSE, win |-> 0, live |-> FALSE]

CM(S) == S.monitors[S.current_monitor]

SetCM(S, m) == [S EXCEPT !.monitors[S.current_monitor] = m]

\* A gateway command appended to the handler's command log.
Emit(S, c) == IF S.fault # "none" THEN S ELSE [S EXCEPT !.cmds = Append(@, c)]

\* The record at c as the code reads it (the reads of a null pointer are
\* cut off by Touch before their values are used).
Rec(S, c) == IF c = NULL THEN ZeroClient ELSE S.clients[c]

\* Dereferencing c.
Touch(S, c) ==
    IF S.fault # "none" THEN S
    ELSE IF c = NULL THEN [S EXCEPT !.fault = "segv"]
    ELSE IF ~S.clients[c].live THEN [S EXCEPT !.fault = "ub"]
    ELSE S

\* The records reached from h by next-links, in order; a walk that meets a
\* record twice stops there.
RECURSIVE ChainFrom(_, _, _)
ChainFrom(cl, h, seen) ==
    IF h = NULL \/ h \in seen THEN <<>>
    ELSE <<h>> \o ChainFrom(cl, cl[h].next, seen \cup {h})

Chain(cl, h) == ChainFrom(cl, h, {})

RECURSIVE CyclicFrom(_, _, _)
CyclicFrom(cl, h, seen) ==
    IF h = NULL THEN FALSE
    ELSE IF h \in seen THEN TRUE
    ELSE CyclicFrom(cl, cl[h].next, seen \cup {h})

Cyclic(cl, h) == CyclicFrom(cl, h, {})

Range(s) == {s[i] : i \in 1..Len(s)}

\* A loop over the list from h.
Walk(S, h) ==
    IF S.fault # "none" THEN S
    ELSE IF Cyclic(S.clients, h) THEN [S EXCEPT !.fault = "hang"]
    ELSE IF \E a \in Range(Chain(S.clients, h)) : ~S.clients[a].live
         THEN [S EXCEPT !.fault = "ub"]
    ELSE S

xcb_map_window(S, w) ==
    IF S.fault # "none" THEN S ELSE Emit([S EXCEPT !.mapped = @ \cup {w}], <<"map", w>>)

xcb_unmap_window(S, w) ==
    IF S.fault # "none" THEN S ELSE Emit([S EXCEPT !.mapped = @ \ {w}], <<"unmap", w>>)

RECURSIVE MapAll(_, _)
MapAll(S, ch) ==
    IF ch = <<>> THEN S ELSE MapAll(xcb_map_window(S, S.clients[Head(ch)].win), Tail(ch))

RECURSIVE UnmapAll(_, _)
UnmapAll(S, ch) ==
    IF ch = <<>> THEN S ELSE UnmapAll(xcb_unmap_window(S, S.clients[Head(ch)].win), Tail(ch))

\* for (c = CM->head; c; c = c->next) xcb_map_window(dis, c->win);
MapList(S) == Then(Walk(S, CM(S).head), LAMBDA T : MapAll(T, Chain(T.clients, CM(T).head)))

UnmapList(S) == Then(Walk(S, CM(S).head), LAMBDA T : UnmapAll(T, Chain(T.clients, CM(T).head)))

\* ------------------------------------------------- desktop / monitor context
select_monitor(S, i) ==
    IF S.fault # "none" \/ i >= MONITORS THEN S ELSE [S EXCEPT !.current_monitor = i]

\* save_desktop without its last assignment (prevfocus).
save_desktop_short(S, i) ==
    IF S.fault # "none" \/ i < 0 \/ i >= DESKTOPS THEN S
    ELSE Then(CM(S), LAMBDA m :
         SetCM(S, [m EXCEPT !.desktops[i] =
             [master_size |-> m.master_size, mode |-> m.mode, growth |-> m.growth,
              head |-> m.head, current |-> m.current, showpanel |-> m.showpanel,
              prevfocus |-> m.desktops[i].prevfocus]]))

save_desktop(S, i) ==
    IF S.fault # "none" \/ i < 0 \/ i >= DESKTOPS THEN S
    ELSE Then(CM(S), LAMBDA m :
         SetCM(S, [m EXCEPT !.desktops[i] =
             [master_size |-> m.master_size, mode |-> m.mode, growth |-> m.growth,
              head |-> m.head, current |-> m.current, showpanel |-> m.showpanel,
              prevfocus |-> m.prevfocus]]))

\* The slot d becomes the active context, with i the active desktop.
LoadDesktop(S, i) ==
    Then(CM(S), LAMBDA m : Then(m.desktops[i], LAMBDA d :
        SetCM(S, [m EXCEPT !.master_size = d.master_size, !.mode = d.mode,
                           !.growth = d.growth, !.head = d.head,
                           !.current = d.current, !.showpanel = d.showpanel,
                           !.prevfocus = d.prevfocus, !.current_desktop = i])))

select_desktop(S, i) ==
    IF S.fault # "none" \/ i < 0 \/ i >= DESKTOPS THEN S
    ELSE LoadDesktop(save_desktop(S, CM(S).current_desktop), i)

\* -------------------------------------------------------------- the heap
\* calloc: the address of the new record. A window has at most two records
\* at a time (client_to_desktop adds the new one before it frees the old),
\* so the record of window w takes address w, or w + MaxWin when w is taken.
calloc(S, w) == IF ~S.clients[w].live THEN w ELSE w + MaxWin

\* free(c): freeing a record twice is undefined behaviour.
free(S, c) ==
    IF S.fault # "none" THEN S
    ELSE IF ~S.clients[c].live THEN [S EXCEPT !.fault = "ub"]
    ELSE [S EXCEPT !.clients[c] = ZeroClient]

\* ------------------------------------------------------------- the layout
\* C's integer division and remainder (truncation toward zero), b > 0.
CDiv(a, b) == IF a >= 0 THEN a \div b ELSE 0 - ((0 - a) \div b)

CMod(a, b) == a - b * CDiv(a, b)

\* The least index k >= from with el[k], or 0: the first client that the
\* layouts place, in a list whose k-th client is eligible iff el[k].
FirstFrom(el, from) ==
    IF \E k \in from..Len(el) : el[k]
    THEN CHOOSE k \in from..Len(el) : el[k] /\ \A j \in from..(k - 1) : ~el[j]
    ELSE 0

\* stack: n after its two counting loops (the eligible clients behind the
\* head, less one for every ineligible client ahead of the master).
StackCount(el) ==
    Cardinality({k \in 2..Len(el) : el[k]})
        - (IF FirstFrom(el, 1) = 0 THEN Len(el) ELSE FirstFrom(el, 1) - 1)

\* StackShare dividing the whole axis, the growth not taken out.
StackShare_plain(z0, growth, n) == IF n > 1 THEN CDiv(z0, n) ELSE z0

\* stack: z, the length every stack client gets of the axis of length z0.
StackShare(z0, growth, n) == IF n > 1 THEN CDiv(z0 - growth, n) ELSE z0

\* stack: d, the length added to the first stack client.
StackExtra(z0, growth, n) == IF n > 1 THEN CMod(z0 - growth, n) + growth ELSE 0

\* xcb_move_resize of the c-th client of the list.
Rect(c, x, y, w, h) == [c |-> c, x |-> x, y |-> y, w |-> w, h |-> h]

\* stack: the indices of the stack clients behind the first one (at c2).
RestOf(el, c2) == SelectSeq([k \in 1..Len(el) |-> k], LAMBDA k : k > c2 /\ el[k])

\* stack in TILE mode from the master (at c) on; z and d are set.
StackTile(el, g, c, c2, z, d) ==
    <<Rect(c, g.wx, g.wy + g.cy, g.master_size - BORDER_WIDTH, g.hh - 2 * BORDER_WIDTH)>>
    \o (IF c2 = 0 THEN <<>>
        ELSE <<Rect(c2, g.wx + g.master_size, g.wy + g.cy,
                    g.ww - BORDER_WIDTH * 2 - g.master_size,
                    (z - BORDER_WIDTH) - BORDER_WIDTH + d)>>
             \o Then(RestOf(el, c2), LAMBDA rest :
                 [k \in 1..Len(rest) |->
                     Rect(rest[k], g.wx + g.master_size,
                          g.wy + g.cy + (z - BORDER_WIDTH) + d + (k - 1) * z,
                          g.ww - BORDER_WIDTH * 2 - g.master_size, z - BORDER_WIDTH)]))

\* stack in BSTACK mode from the master (at c) on; z and d are set.
StackBottom(el, g, c, c2, z, d) ==
    <<Rect(c, g.wx, g.wy + g.cy, g.ww - 2 * BORDER_WIDTH, g.master_size - BORDER_WIDTH)>>
    \o (IF c2 = 0 THEN <<>>
        ELSE <<Rect(c2, g.wx, g.wy + g.cy + g.master_size,
                    (z - BORDER_WIDTH) - BORDER_WIDTH + d,
                    g.hh - BORDER_WIDTH * 2 - g.master_size)>>
             \o Then(RestOf(el, c2), LAMBDA rest :
                 [k \in 1..Len(rest) |->
                     Rect(rest[k], g.wx + (z - BORDER_WIDTH) + d + (k - 1) * z,
                          g.wy + g.cy + g.master_size,
                          z - BORDER_WIDTH, g.hh - BORDER_WIDTH * 2 - g.master_size)]))

\* stack(hh, cy): the xcb_move_resize commands in the order sent, for the
\* geometry g = [mode, wx, wy, ww, hh, cy, master_size, growth].
StackRects(el, g) ==
    Then(FirstFrom(el, 1), LAMBDA c : Then(StackCount(el), LAMBDA n :
    Then(IF g.mode = BSTACK THEN g.ww ELSE g.hh, LAMBDA z0 :
        IF c = 0 THEN <<>>
        ELSE IF n < 1
        THEN <<Rect(c, g.wx, g.wy + g.cy, g.ww - 2 * BORDER_WIDTH, g.hh - 2 * BORDER_WIDTH)>>
        ELSE IF g.mode = BSTACK
        THEN StackBottom(el, g, c, FirstFrom(el, c + 1),
                         StackShare(z0, g.growth, n), StackExtra(z0, g.growth, n))
        ELSE StackTile(el, g, c, FirstFrom(el, c + 1),
                       StackShare(z0, g.growth, n), StackExtra(z0, g.growth, n)))))

\* GridCols without "if (n == 5) cols = 2;".
GridCols_root(n) ==
    IF \E c \in 0..(n \div 2) : c * c >= n
    THEN CHOOSE c \in 0..(n \div 2) : c * c >= n /\ \A b \in 0..(c - 1) : b * b < n
    ELSE (n \div 2) + 1

\* grid: cols for n eligible clients.
GridCols(n) ==
    IF n = 5 THEN 2
    ELSE IF \E c \in 0..(n \div 2) : c * c >= n
    THEN CHOOSE c \in 0..(n \div 2) : c * c >= n /\ \A b \in 0..(c - 1) : b * b < n
    ELSE (n \div 2) + 1

\* GridRows never adding the extra row.
GridRows_even(n, cols, i, rows) == rows

\* grid: rows when the i-th eligible client (from 0) is placed.
GridRows(n, cols, i, rows) ==
    IF (i \div rows) + 1 > cols - (n % cols) THEN (n \div cols) + 1 ELSE rows

\* grid: the cells (column cn, row rn, of rows rows) of the eligible clients
\* from the i-th on.
RECURSIVE GridWalk(_, _, _, _, _, _)
GridWalk(n, cols, i, rows, cn, rn) ==
    IF i >= n THEN <<>>
    ELSE Then(GridRows(n, cols, i, rows), LAMBDA r :
         <<[col |-> cn, row |-> rn, rows |-> r]>>
         \o (IF rn + 1 >= r THEN GridWalk(n, cols, i + 1, r, cn + 1, 0)
                             ELSE GridWalk(n, cols, i + 1, r, cn, rn + 1)))

\* grid for n >= 1 eligible clients.
GridCells(n) == GridWalk(n, GridCols(n), 0, n \div GridCols(n), 0, 0)

\* The indices of the eligible clients, in list order.
EligibleOf(el) == SelectSeq([k \in 1..Len(el) |-> k], LAMBDA k : el[k])

\* grid(hh, cy): the xcb_move_resize commands in the order sent, when at
\* least one client is eligible.
GridRects(el, g) ==
    Then(EligibleOf(el), LAMBDA e : Then(GridCells(Len(e)), LAMBDA cells :
    Then((g.ww - BORDER_WIDTH) \div GridCols(Len(e)), LAMBDA cw :
        [k \in 1..Len(e) |->
            Rect(e[k], g.wx + cells[k].col * cw,
                 g.wy + g.cy + (cells[k].row * (g.hh - BORDER_WIDTH)) \div cells[k].rows,
                 cw - BORDER_WIDTH,
                 (g.hh - BORDER_WIDTH) \div cells[k].rows - BORDER_WIDTH)])))

Eligible(r) == ~r.istransient /\ ~r.isfullscrn /\ ~r.isfloating

\* The number of clients of the active list that the layouts place.
Placed(S) ==
    Cardinality({a \in Range(Chain(S.clients, CM(S).head)) : Eligible(S.clients[a])})

\* tile(): the arguments of the layout function for the active context m.
GeometryOf(m) ==
    [mode |-> m.mode, wx |-> 0, wy |-> 0, ww |-> WW,
     hh |-> WH + (IF m.showpanel THEN 0 ELSE PANEL_HEIGHT),
     cy |-> IF TOP_PANEL /\ m.showpanel THEN PANEL_HEIGHT ELSE 0,
     master_size |-> m.master_size, growth |-> m.growth]

\* Which clients of the list from h the layouts place.
FlagsOf(cl, h) == Then(Chain(cl, h), LAMBDA ch : [k \in 1..Len(ch) |-> Eligible(cl[ch[k]])])

\* monocle(hh, cy): every eligible client covers the work area.
MonocleRects(el, g) ==
    Then(EligibleOf(el), LAMBDA e :
        [k \in 1..Len(e) |-> Rect(e[k], g.wx, g.wy + g.cy, g.ww, g.hh)])

\* xcb_move_resize, for every rectangle of rs, on its client of the list ch.
RECURSIVE MoveResizeAll(_, _, _)
MoveResizeAll(S, ch, rs) ==
    IF rs = <<>> THEN S
    ELSE MoveResizeAll(Emit(S, <<"move_resize", S.clients[ch[Head(rs).c]].win, Head(rs)>>),
                       ch, Tail(rs))

\* grid: n eligible clients; cols == 0 when n == 0, and n/cols divides by zero.
grid(S) ==
    Then(Walk(S, CM(S).head), LAMBDA T :
        IF T.fault # "none" THEN T
        ELSE IF Placed(T) = 0 THEN [T EXCEPT !.fault = "ub"]
        ELSE MoveResizeAll(T, Chain(T.clients, CM(T).head),
                           GridRects(FlagsOf(T.clients, CM(T).head), GeometryOf(CM(T)))))

stack(S) ==
    Then(Walk(S, CM(S).head), LAMBDA T :
        IF T.fault # "none" THEN T
        ELSE MoveResizeAll(T, Chain(T.clients, CM(T).head),
                           StackRects(FlagsOf(T.clients, CM(T).head), GeometryOf(CM(T)))))

monocle(S) ==
    Then(Walk(S, CM(S).head), LAMBDA T :
        IF T.fault # "none" THEN T
        ELSE MoveResizeAll(T, Chain(T.clients, CM(T).head),
                           MonocleRects(FlagsOf(T.clients, CM(T).head), GeometryOf(CM(T)))))

\* layout[CM->head->next ? CM->mode : MONOCLE]
LayoutOf(S) == IF Rec(S, CM(S).head).next # NULL THEN CM(S).mode ELSE MONOCLE

tile(S) ==
    IF S.fault # "none" \/ CM(S).head = NULL THEN S
    ELSE Then(Touch(S, CM(S).head), LAMBDA T :
         IF T.fault # "none" THEN T
         ELSE IF LayoutOf(T) = GRID THEN grid(T)
         ELSE IF LayoutOf(T) = MONOCLE THEN monocle(T)
         ELSE stack(T))

\* ------------------------------------------------------ focus and stacking
\* xcb_border_width and xcb_change_window_attributes(XCB_CW_BORDER_PIXEL).
xcb_border(S, w, width, pixel) ==
    [S EXCEPT !.display.border[w] = [width |-> width, pixel |-> pixel]]

\* w goes to the top of the stacking order.
xcb_raise_window(S, w) ==
    IF w \notin Range(S.display.order) THEN S
    ELSE [S EXCEPT !.display.order = Append(SelectSeq(@, LAMBDA v : v # w), w)]

\* No border for the only client of the list, a fullscreen client, or a
\* client that MONOCLE places.
BorderWidthOf(S, m, c) ==
    IF \/ S.clients[S.monitors[m].head].next = NULL
       \/ S.clients[c].isfullscrn
       \/ (S.monitors[m].mode = MONOCLE /\ ~S.clients[c].isfloating /\ ~S.clients[c].istransient)
    THEN 0 ELSE BORDER_WIDTH

BorderPixelOf_any(S, c) == IF CM(S).current # NULL THEN "focus" ELSE "unfocus"

\* CM->current == c ? &win_focus : &win_unfocus
BorderPixelOf(S, c) == IF CM(S).current = c THEN "focus" ELSE "unfocus"

\* for (c = monitors[m].head; c; c = c->next): the borders of the list ch.
RECURSIVE Paint(_, _, _)
Paint(S, m, ch) ==
    IF ch = <<>> THEN S
    ELSE Paint(xcb_border(S, S.clients[Head(ch)].win, BorderWidthOf(S, m, Head(ch)),
                          BorderPixelOf(S, Head(ch))), m, Tail(ch))

\* for (int m = 0; m < MONITORS; m++): the active list of every monitor.
RECURSIVE WalkMonitors(_, _)
WalkMonitors(S, m) ==
    IF m >= MONITORS THEN S
    ELSE WalkMonitors(Then(Walk(S, S.monitors[m].head), LAMBDA T :
                          IF T.fault # "none" THEN T
                          ELSE Paint(T, m, Chain(T.clients, T.monitors[m].head))), m + 1)

RECURSIVE RaiseAll(_, _)
RaiseAll(S, ch) ==
    IF ch = <<>> THEN S ELSE RaiseAll(xcb_raise_window(S, S.clients[Head(ch)].win), Tail(ch))

\* The floating and transient clients of the active list, in list order.
Floaters(S) ==
    SelectSeq(Chain(S.clients, CM(S).head),
              LAMBDA a : S.clients[a].istransient \/ S.clients[a].isfloating)

\* keep transient and floating windows on top of regular windows: a floating
\* or transient current is raised; else every such client of the list is, and
\* current when there is none.
Restack(S) ==
    IF S.fault # "none" THEN S
    ELSE IF S.clients[CM(S).current].isfloating \/ S.clients[CM(S).current].istransient
         \/ Floaters(S) = <<>>
    THEN xcb_raise_window(S, S.clients[CM(S).current].win)
    ELSE RaiseAll(S, Floaters(S))

\* The focus moves to the window of CM->current.
SetFocus(S) ==
    Then(Touch(S, CM(S).current), LAMBDA T :
        IF T.fault # "none" THEN T
        ELSE Then(T.clients[CM(T).current].win, LAMBDA w :
             Restack(Walk(Emit([T EXCEPT !.focus = w], <<"focus", w>>), CM(T).head))))

update_current(S, c) ==
    IF S.fault # "none" THEN S
    ELSE IF c = NULL THEN Emit(S, <<"delete_active", 0>>)
    ELSE SetFocus(WalkMonitors(SetCM(S, [CM(S) EXCEPT !.current = c]), 0))

\* ------------------------------------------------------ the client registry
\* The record c, just allocated for window w, is linked into the active list.
Attach(S, w, c) ==
    Then([S EXCEPT !.clients[c] =
             [ZeroClient EXCEPT !.monitor = S.current_monitor, !.win = w, !.live = TRUE]],
         LAMBDA T :
        IF CM(S).head = NULL THEN SetCM(T, [CM(T) EXCEPT !.head = c])
        ELSE IF S.config.ATTACH_ASIDE
        THEN Then(Chain(S.clients, CM(S).head), LAMBDA ch :
                 [Walk(T, CM(S).head) EXCEPT !.clients[ch[Len(ch)]].next = c])
        ELSE SetCM([T EXCEPT !.clients[c].next = CM(S).head], [CM(T) EXCEPT !.head = c]))

addwindow(S, w) ==
    IF S.fault # "none" THEN S
    ELSE Then(Attach(S, w, calloc(S, w)), LAMBDA T :
         IF T.fault # "none" THEN T ELSE [T EXCEPT !.ret = calloc(S, w)])

\* The search loop of removeclient from desktop nd on: the machine state with
\* the desktop selected in which the search ended, the link that holds c
\* (NULL: the head; a: a's next) or, when no list holds c, the null link at
\* the end of the last list, and nd after the loop.
RECURSIVE FindSlot(_, _, _)
FindSlot(S, c, nd) ==
    Then(select_desktop(S, nd), LAMBDA T : Then(Chain(T.clients, CM(T).head), LAMBDA ch :
        IF \E i \in 1..Len(ch) : ch[i] = c
        THEN Then(CHOOSE i \in 1..Len(ch) : ch[i] = c, LAMBDA idx :
                 [S |-> T, slot |-> IF idx = 1 THEN NULL ELSE ch[idx - 1], nd |-> nd + 1])
        ELSE IF Cyclic(T.clients, CM(T).head)
        THEN [S |-> [T EXCEPT !.fault = "hang"], slot |-> NULL, nd |-> nd + 1]
        ELSE IF nd + 1 < DESKTOPS THEN FindSlot(T, c, nd + 1)
        ELSE [S |-> T, slot |-> IF ch = <<>> THEN NULL ELSE ch[Len(ch)], nd |-> nd + 1]))

\* Unlink with the link p forgotten: CM->head = c->next.
Unlink_head(S, slot, nxt) == SetCM(S, [CM(S) EXCEPT !.head = nxt])

\* *p = c->next for the link p that FindSlot returned.
Unlink(S, slot, nxt) ==
    IF slot = NULL THEN SetCM(S, [CM(S) EXCEPT !.head = nxt])
    ELSE [S EXCEPT !.clients[slot].next = nxt]

\* CM->current = (prevfocus && prevfocus != c) ? prevfocus
\*             : (*p) ? (prevfocus = *p) : (prevfocus = head)
Refocus(S, c, nxt) ==
    Then(CM(S), LAMBDA m :
        IF m.prevfocus # NULL /\ m.prevfocus # c THEN SetCM(S, [m EXCEPT !.current = m.prevfocus])
        ELSE IF nxt # NULL THEN SetCM(S, [m EXCEPT !.current = nxt, !.prevfocus = nxt])
        ELSE SetCM(S, [m EXCEPT !.current = m.head, !.prevfocus = m.head]))

\* Removed without select_desktop(cd): the desktop of the search stays selected.
Removed_there(S, c, cd, nd, OLDM) ==
    Then(tile(S), LAMBDA T :
    Then(IF T.fault = "none" /\ CM(T).mode = MONOCLE /\ cd = nd /\ CM(T).current # NULL
         THEN xcb_map_window(Touch(T, CM(T).current), Rec(T, CM(T).current).win)
         ELSE T, LAMBDA U :
    Then(free(update_current(U, CM(U).current), c), LAMBDA V :
        IF V.fault = "none" /\ OLDM # V.current_monitor
        THEN Then(select_monitor(V, OLDM), LAMBDA W : update_current(W, CM(W).current))
        ELSE V)))

\* removeclient from select_desktop(cd) on; nd: the desktop the search ended in.
Removed(S, c, cd, nd, OLDM) ==
    Then(tile(select_desktop(S, cd)), LAMBDA T :
    Then(IF T.fault = "none" /\ CM(T).mode = MONOCLE /\ cd = nd /\ CM(T).current # NULL
         THEN xcb_map_window(Touch(T, CM(T).current), Rec(T, CM(T).current).win)
         ELSE T, LAMBDA U :
    Then(free(update_current(U, CM(U).current), c), LAMBDA V :
        IF V.fault = "none" /\ OLDM # V.current_monitor
        THEN Then(select_monitor(V, OLDM), LAMBDA W : update_current(W, CM(W).current))
        ELSE V)))

removeclient(S, c) ==
    Then(Touch(S, c), LAMBDA S0 :
        IF S0.fault # "none" THEN S0
        ELSE Then(select_monitor(S0, S0.clients[c].monitor), LAMBDA S1 :
             Then(FindSlot(S1, c, 0), LAMBDA F :
                 Removed(Refocus(Unlink(F.S, F.slot, F.S.clients[c].next), c, F.S.clients[c].next),
                         c, CM(S1).current_desktop, F.nd - 1, S0.current_monitor))))

\* The first record of the list ch that holds window w, or NULL.
FirstWin(cl, ch, w) ==
    IF \E i \in 1..Len(ch) : cl[ch[i]].win = w
    THEN ch[CHOOSE i \in 1..Len(ch) : cl[ch[i]].win = w /\ \A j \in 1..(i - 1) : cl[ch[j]].win # w]
    ELSE NULL

\* wintoclient: the inner loop over the desktops of the selected monitor.
RECURSIVE wintoclient_desktops(_, _, _)
wintoclient_desktops(S, w, d) ==
    IF S.fault # "none" \/ d >= DESKTOPS THEN [S EXCEPT !.ret = NULL]
    ELSE Then(select_desktop(S, d), LAMBDA S1 : Then(Walk(S1, CM(S1).head), LAMBDA T :
         IF T.fault # "none" THEN T
         ELSE Then(FirstWin(T.clients, Chain(T.clients, CM(T).head), w), LAMBDA c :
              IF c # NULL THEN [T EXCEPT !.ret = c] ELSE wintoclient_desktops(T, w, d + 1))))

RECURSIVE wintoclient_monitors(_, _, _)
wintoclient_monitors(S, w, m) ==
    IF S.fault # "none" \/ m >= MONITORS THEN [S EXCEPT !.ret = NULL]
    ELSE Then(select_monitor(S, m), LAMBDA S1 :
         Then(select_desktop(wintoclient_desktops(S1, w, 0), CM(S1).current_desktop), LAMBDA T :
             IF T.ret # NULL THEN T ELSE wintoclient_monitors(T, w, m + 1)))

\* wintoclient without its last statement, select_monitor(OLDM).
wintoclient_astray(S, w) ==
    IF S.fault # "none" THEN S
    ELSE wintoclient_monitors(S, w, 0)

wintoclient(S, w) ==
    IF S.fault # "none" THEN S
    ELSE select_monitor(wintoclient_monitors(S, w, 0), S.current_monitor)

\* ------------------------------------------------------------- the handlers
\* "%d" of a bool that is always set.
Bit_set(b) == "1"

\* "%d" of a bool.
Bit(b) == IF b THEN "1" ELSE "0"

\* desktopinfo: the loop over every monitor and desktop. Each fprintf is
\* noted as <<"print", tokens>> with the characters that it writes, number
\* by number, and fflush as <<"status", 0>>.
RECURSIVE desktopinfo_desktops(_, _, _, _, _)
desktopinfo_desktops(S, OLDM, m, cd, d) ==
    IF S.fault # "none" \/ d >= DESKTOPS THEN S
    ELSE Then(select_desktop(S, d), LAMBDA T : Then(Walk(T, CM(T).head), LAMBDA U :
         IF U.fault # "none" THEN U
         ELSE Then(Chain(U.clients, CM(U).head), LAMBDA ch :
              desktopinfo_desktops(
                  Emit(U, <<"print",
                            <<ToString(m), ":", Bit(U.current_monitor = OLDM), ":", ToString(d), ":",
                              ToString(Len(ch)), ":", ToString(CM(U).mode), ":",
                              Bit(CM(U).current_desktop = cd), ":",
                              Bit(\E k \in 1..Len(ch) : U.clients[ch[k]].isurgent),
                              IF m + 1 = MONITORS /\ d + 1 = DESKTOPS THEN "\n" ELSE " ">> >>),
                  OLDM, m, cd, d + 1))))

RECURSIVE desktopinfo_monitors(_, _, _)
desktopinfo_monitors(S, OLDM, m) ==
    IF S.fault # "none" \/ m >= MONITORS THEN S
    ELSE Then(select_monitor(S, m), LAMBDA T :
         desktopinfo_monitors(
             select_desktop(desktopinfo_desktops(T, OLDM, m, CM(T).current_desktop, 0),
                            CM(T).current_desktop),
             OLDM, m + 1))

desktopinfo(S) ==
    IF S.fault # "none" THEN S
    ELSE Emit(select_monitor(desktopinfo_monitors(S, S.current_monitor, 0), S.current_monitor),
              <<"status", 0>>)

\* update_current(CM->current)
Refresh(S) == IF S.fault # "none" THEN S ELSE update_current(S, CM(S).current)

\* change_monitor without "if (arg->i == current_monitor) return;".
change_monitor_again(S, i) ==
    IF S.fault # "none" THEN S
    ELSE desktopinfo(Refresh(select_monitor([S EXCEPT !.previous_monitor = S.current_monitor], i)))

change_monitor(S, i) ==
    IF S.fault # "none" \/ i = S.current_monitor THEN S
    ELSE desktopinfo(Refresh(select_monitor([S EXCEPT !.previous_monitor = S.current_monitor], i)))

\* change_desktop: the windows of the selected desktop are mapped.
MapNew(S) ==
    IF S.fault # "none" THEN S
    ELSE IF CM(S).mode = MONOCLE /\ CM(S).current # NULL
    THEN xcb_map_window(Touch(S, CM(S).current), Rec(S, CM(S).current).win)
    ELSE MapList(S)

\* change_desktop: the previous desktop is selected and its windows unmapped.
UnmapOld(S) ==
    IF S.fault # "none" THEN S ELSE UnmapList(select_desktop(S, CM(S).previous_desktop))

\* change_desktop unmapping the previous desktop's windows first.
change_desktop_hiding(S, i) ==
    IF S.fault # "none" \/ i = CM(S).current_desktop THEN S
    ELSE desktopinfo(Refresh(MapNew(tile(select_desktop(UnmapList(
             SetCM(S, [CM(S) EXCEPT !.previous_desktop = CM(S).current_desktop])), i)))))

change_desktop(S, i) ==
    IF S.fault # "none" \/ i = CM(S).current_desktop THEN S
    ELSE desktopinfo(select_desktop(UnmapOld(Refresh(MapNew(tile(select_desktop(
             SetCM(S, [CM(S) EXCEPT !.previous_desktop = CM(S).current_desktop]), i))))), i))

setfullscreen(S, c, fullscrn) ==
    Then(Touch(S, c), LAMBDA T :
        IF T.fault # "none" THEN T
        ELSE Emit([T EXCEPT !.clients[c].isfullscrn = fullscrn],
                  <<IF fullscrn THEN "fullscreen_geometry" ELSE "drawbars", T.clients[c].win>>))

\* The request of window w that asks for nothing.
NoValues(w) ==
    [window |-> w, value_mask |-> {}, x |-> 0, y |-> 0, width |-> 0, height |-> 0,
     border_width |-> 0, sibling |-> 0, stack_mode |-> 0]

\* configurerequest's v[] for the active context m: the value that is passed
\* on for each field of the request's value_mask. In
\* ev->y + (CM->showpanel && TOP_PANEL) ? PANEL_HEIGHT : 0 the sum is the
\* condition of ?:.
ConfigureValues(ev, m) ==
    [f \in ev.value_mask |->
        CASE f = "x" -> ev.x
          [] f = "y" -> IF ev.y + (IF m.showpanel /\ TOP_PANEL THEN 1 ELSE 0) # 0
                        THEN PANEL_HEIGHT ELSE 0
          [] f = "width" -> IF ev.width < WW - BORDER_WIDTH THEN ev.width ELSE WW + BORDER_WIDTH
          [] f = "height" -> IF ev.height < WH - BORDER_WIDTH THEN ev.height
                             ELSE WH + BORDER_WIDTH
          [] f = "border_width" -> ev.border_width
          [] f = "sibling" -> ev.sibling
          [] f = "stack_mode" -> ev.stack_mode]

\* configurerequest: the request ev is passed on with the values of v[] (for
\* a fullscreen client it is answered by the fullscreen geometry), the
\* desktop is tiled, and a current client gets the focus again.
configurerequest(S, ev) ==
    Then(wintoclient(S, ev.window), LAMBDA T : Then(T.ret, LAMBDA c :
        IF T.fault # "none" THEN T
        ELSE Then(tile(IF c # NULL /\ T.clients[c].isfullscrn THEN setfullscreen(T, c, TRUE)
                       ELSE Emit(T, <<"configure", ev.window, ConfigureValues(ev, CM(T))>>)),
                  LAMBDA U :
             IF U.fault = "none" /\ c # NULL /\ c = CM(U).current
             THEN update_current(U, c) ELSE U)))

\* CM->current = addwindow(w) for the record ret that addwindow returned,
\* which takes the flags of the record old.
KeepProperties(S, old) ==
    IF S.fault # "none" THEN S
    ELSE [SetCM(S, [CM(S) EXCEPT !.current = S.ret])
             EXCEPT !.clients[S.ret].isfloating  = old.isfloating,
                    !.clients[S.ret].isfullscrn  = old.isfullscrn,
                    !.clients[S.ret].istransient = old.istransient]

\* client_to_monitor after its early return, for the record old of CM->current.
MoveToMonitor(S, i, old) ==
    Then(tile(KeepProperties(
             addwindow(select_monitor(removeclient(xcb_unmap_window(S, old.win), CM(S).current), i),
                       old.win), old)), LAMBDA T :
    Then(Refresh(tile(select_monitor(
             xcb_map_window(Touch(T, CM(T).current), Rec(T, CM(T).current).win),
             S.current_monitor))), LAMBDA U :
        desktopinfo(IF S.config.FOLLOW_WINDOW THEN change_monitor(U, i) ELSE U)))

client_to_monitor(S, i) ==
    IF S.fault # "none" THEN S
    ELSE Then(Touch(S, CM(S).current), LAMBDA T :
         IF T.fault # "none" THEN T
         ELSE IF i < MONITORS /\ T.clients[CM(T).current].monitor = i THEN T
         ELSE MoveToMonitor(T, i, T.clients[CM(T).current]))

\* client_to_desktop after its early return, for the current client c.
MoveToDesktop(S, i, c, cd) ==
    Then(KeepProperties(addwindow(select_desktop(S, i), S.clients[c].win), S.clients[c]), LAMBDA T :
    Then(Refresh(tile(removeclient(
             xcb_unmap_window(select_desktop(T, cd), Rec(T, c).win), c))), LAMBDA U :
        desktopinfo(IF S.config.FOLLOW_WINDOW THEN change_desktop(U, i) ELSE U)))

client_to_desktop(S, i) ==
    IF S.fault # "none" \/ i = CM(S).current_desktop \/ CM(S).current = NULL THEN S
    ELSE Then(Touch(S, CM(S).current), LAMBDA T :
         IF T.fault # "none" THEN T
         ELSE MoveToDesktop(T, i, CM(T).current, CM(T).current_desktop))

togglepanel(S) ==
    IF S.fault # "none" THEN S
    ELSE Then(tile(SetCM(S, [CM(S) EXCEPT !.showpanel = ~@])), LAMBDA T :
         Emit(T, <<IF CM(T).showpanel THEN "map_bar" ELSE "unmap_bar", 0>>))

\* clientmessage taking the toggle for a set.
clientmessage_set(S, w, format32, kind, action) ==
    Then(wintoclient(S, w), LAMBDA T : Then(T.ret, LAMBDA c :
        IF T.fault # "none" \/ ~format32 THEN T
        ELSE Refresh(tile(
                 IF c # NULL /\ kind = "fullscreen"
                 THEN setfullscreen(T, c, action = 1 \/ action = 2)
                 ELSE IF c # NULL /\ kind = "active"
                 THEN SetCM(T, [CM(T) EXCEPT !.current = c])
                 ELSE T))))

\* kind: "fullscreen" (a _NET_WM_STATE message naming the fullscreen atom,
\* action 0, 1 or 2), "active" (_NET_ACTIVE_WINDOW) or "other".
clientmessage(S, w, format32, kind, action) ==
    Then(wintoclient(S, w), LAMBDA T : Then(T.ret, LAMBDA c :
        IF T.fault # "none" \/ ~format32 THEN T
        ELSE Refresh(tile(
                 IF c # NULL /\ kind = "fullscreen"
                 THEN setfullscreen(T, c, action = 1 \/ (action = 2 /\ ~T.clients[c].isfullscrn))
                 ELSE IF c # NULL /\ kind = "active"
                 THEN SetCM(T, [CM(T) EXCEPT !.current = c])
                 ELSE T))))

\* destroynotify without the test of c: removeclient(wintoclient(ev->window)).
destroynotify_unchecked(S, w) ==
    Then(wintoclient(S, w), LAMBDA T : desktopinfo(removeclient(T, T.ret)))

destroynotify(S, w) ==
    Then(wintoclient(S, w), LAMBDA T :
        desktopinfo(IF T.fault = "none" /\ T.ret # NULL THEN removeclient(T, T.ret) ELSE T))

\* fromroot: ev->event == screen->root.
unmapnotify(S, w, fromroot) ==
    Then(wintoclient(S, w), LAMBDA T :
        desktopinfo(IF T.fault = "none" /\ T.ret # NULL /\ ~fromroot
                    THEN removeclient(T, T.ret) ELSE T))

\* normal: ev->mode == XCB_NOTIFY_MODE_NORMAL && ev->detail != XCB_NOTIFY_DETAIL_INFERIOR.
enternotify(S, w, normal) ==
    IF S.fault # "none" \/ ~S.config.FOLLOW_MOUSE THEN S
    ELSE Then(wintoclient(S, w), LAMBDA T :
         IF T.ret # NULL /\ normal THEN update_current(T, T.ret) ELSE T)

RECURSIVE focusurgent_clients(_, _)
focusurgent_clients(S, ch) ==
    IF S.fault # "none" \/ ch = <<>> THEN S
    ELSE focusurgent_clients(
             IF S.clients[Head(ch)].isurgent THEN update_current(S, Head(ch)) ELSE S,
             Tail(ch))

RECURSIVE focusurgent_monitors(_, _)
focusurgent_monitors(S, m) ==
    IF S.fault # "none" \/ m >= MONITORS THEN S
    ELSE Then(Walk(S, S.monitors[m].head), LAMBDA T :
         focusurgent_monitors(
             focusurgent_clients(T, Chain(T.clients, T.monitors[m].head)), m + 1))

focusurgent(S) == focusurgent_monitors(S, 0)

killclient(S) ==
    IF S.fault # "none" \/ CM(S).current = NULL THEN S
    ELSE Then(Touch(S, CM(S).current), LAMBDA T :
         removeclient(Emit(T, <<"close", Rec(T, CM(T).current).win>>), CM(T).current))

\* if (CM->mode == MONOCLE) xcb_map_window(dis, CM->current->win);
\* update_current(CM->current);
ShowCurrent(S) ==
    Refresh(IF S.fault = "none" /\ CM(S).mode = MONOCLE
            THEN xcb_map_window(Touch(S, CM(S).current), Rec(S, CM(S).current).win)
            ELSE S)

next_win(S) ==
    IF S.fault # "none" \/ CM(S).current = NULL THEN S
    ELSE Then(Touch(Touch(S, CM(S).head), CM(S).current), LAMBDA T : Then(CM(T), LAMBDA m :
         IF T.fault # "none" \/ T.clients[m.head].next = NULL THEN T
         ELSE ShowCurrent(SetCM(T, [m EXCEPT !.prevfocus = m.current,
                  !.current = IF T.clients[m.current].next # NULL
                              THEN T.clients[m.current].next ELSE m.head]))))

\* prev_win: the client that becomes current.
PrevOf(cl, m) ==
    Then(Chain(cl, m.head), LAMBDA ch :
        IF m.head = m.current THEN ch[Len(ch)]
        ELSE IF \E i \in 1..Len(ch) : cl[ch[i]].next = m.current
        THEN ch[CHOOSE i \in 1..Len(ch) :
                    cl[ch[i]].next = m.current /\ \A j \in 1..(i - 1) : cl[ch[j]].next # m.current]
        ELSE m.current)

prev_win(S) ==
    IF S.fault # "none" \/ CM(S).current = NULL THEN S
    ELSE Then(Walk(Touch(Touch(S, CM(S).head), CM(S).current), CM(S).head), LAMBDA T :
         Then(CM(T), LAMBDA m :
         IF T.fault # "none" \/ T.clients[m.head].next = NULL THEN T
         ELSE ShowCurrent(SetCM(T, [m EXCEPT !.prevfocus = m.current,
                                             !.current = PrevOf(T.clients, m)]))))

\* for (p = head; p && p->next != c; p = p->next): the record before c in the
\* list from h, NULL when the loop runs off the end.
Before(cl, h, c) ==
    Then(Chain(cl, h), LAMBDA ch :
        IF \E i \in 1..Len(ch) : cl[ch[i]].next = c
        THEN ch[CHOOSE i \in 1..Len(ch) :
                    cl[ch[i]].next = c /\ \A j \in 1..(i - 1) : cl[ch[j]].next # c]
        ELSE NULL)

\* move_up's first loop stopping at the head when no record is before c.
BeforeOrLast_head(cl, h, c) ==
    IF Before(cl, h, c) # NULL THEN Before(cl, h, c) ELSE h

\* for (p = head; p->next && p->next != c; p = p->next): the record before c,
\* or the last record when there is none.
BeforeOrLast(cl, h, c) ==
    IF Before(cl, h, c) # NULL THEN Before(cl, h, c) ELSE Chain(cl, h)[Len(Chain(cl, h))]

move_down(S) ==
    IF S.fault # "none" \/ CM(S).current = NULL THEN S
    ELSE Then(Touch(Touch(S, CM(S).head), CM(S).current), LAMBDA T :
         IF T.fault # "none" \/ T.clients[CM(T).head].next = NULL THEN T
         ELSE Then(Walk(T, CM(T).head), LAMBDA T1 :
         IF T1.fault # "none" THEN T1
         ELSE Then(CM(T1).current, LAMBDA c :
              Then(IF T1.clients[c].next # NULL THEN T1.clients[c].next ELSE CM(T1).head, LAMBDA n :
              Then(Before(T1.clients, CM(T1).head, c), LAMBDA p :
              \* if (p) p->next = CM->current->next; else CM->head = n;
              Then(IF p # NULL THEN [T1 EXCEPT !.clients[p].next = T1.clients[c].next]
                   ELSE SetCM(T1, [CM(T1) EXCEPT !.head = n]), LAMBDA U :
              \* CM->current->next = (CM->current->next) ? n->next : n;
              Then([U EXCEPT !.clients[c].next =
                       IF U.clients[c].next # NULL THEN U.clients[n].next ELSE n], LAMBDA V :
              \* if (CM->current->next == n->next) n->next = CM->current;
              \* else CM->head = CM->current;
              Refresh(tile(IF V.clients[c].next = V.clients[n].next
                           THEN [V EXCEPT !.clients[n].next = c]
                           ELSE SetCM(V, [CM(V) EXCEPT !.head = c]))))))))))

move_up(S) ==
    IF S.fault # "none" \/ CM(S).current = NULL THEN S
    ELSE Then(Touch(Touch(S, CM(S).head), CM(S).current), LAMBDA T :
         IF T.fault # "none" \/ T.clients[CM(T).head].next = NULL THEN T
         ELSE Then(Walk(T, CM(T).head), LAMBDA T1 :
         IF T1.fault # "none" THEN T1
         ELSE Then(CM(T1).current, LAMBDA c :
              Then(BeforeOrLast(T1.clients, CM(T1).head, c), LAMBDA p :
              Then(IF T1.clients[p].next # NULL THEN Before(T1.clients, CM(T1).head, p)
                   ELSE NULL, LAMBDA pp :
              \* if (pp) pp->next = CM->current;
              \* else CM->head = (CM->current == CM->head) ? CM->current->next : CM->current;
              Then(IF pp # NULL THEN [T1 EXCEPT !.clients[pp].next = c]
                   ELSE SetCM(T1, [CM(T1) EXCEPT !.head =
                            IF c = CM(T1).head THEN T1.clients[c].next ELSE c]), LAMBDA U :
              \* p->next = (CM->current->next == CM->head) ? CM->current : CM->current->next;
              Then([U EXCEPT !.clients[p].next =
                       IF U.clients[c].next = CM(U).head THEN c ELSE U.clients[c].next], LAMBDA V :
              \* CM->current->next = (CM->current->next == CM->head) ? NULL : p;
              Refresh(tile([V EXCEPT !.clients[c].next =
                               IF V.clients[c].next = CM(V).head THEN NULL ELSE p])))))))))

RECURSIVE swap_master_up(_, _)
\* while (CM->current != CM->head) move_up(); left: the passes that the
\* loop is followed for, after which it is taken never to end.
swap_master_up(S, left) ==
    IF S.fault # "none" \/ CM(S).current = CM(S).head THEN S
    ELSE IF left = 0 THEN [S EXCEPT !.fault = "hang"]
    ELSE swap_master_up(move_up(S), left - 1)

\* swap_master with one move_up in place of its loop.
swap_master_once(S) ==
    IF S.fault # "none" \/ CM(S).current = NULL THEN S
    ELSE Then(Touch(S, CM(S).head), LAMBDA T :
         IF T.fault # "none" \/ T.clients[CM(T).head].next = NULL \/ CM(T).mode = MONOCLE THEN T
         ELSE Then(IF CM(T).current = CM(T).head THEN move_down(T) ELSE move_up(T), LAMBDA U :
              IF U.fault # "none" THEN U ELSE tile(update_current(U, CM(U).head))))

swap_master(S) ==
    IF S.fault # "none" \/ CM(S).current = NULL THEN S
    ELSE Then(Touch(S, CM(S).head), LAMBDA T :
         IF T.fault # "none" \/ T.clients[CM(T).head].next = NULL \/ CM(T).mode = MONOCLE THEN T
         ELSE Then(IF CM(T).current = CM(T).head THEN move_down(T)
                   ELSE swap_master_up(T, 2 * MaxWin), LAMBDA U :
              IF U.fault # "none" THEN U ELSE tile(update_current(U, CM(U).head))))

\* hints: the WM_HINTS query was answered; urgent: its urgency flag.
propertynotify(S, w, hints, urgent) ==
    Then(wintoclient(S, w), LAMBDA T :
        IF T.fault # "none" \/ T.ret = NULL THEN T
        ELSE desktopinfo(IF hints THEN [T EXCEPT !.clients[T.ret].isurgent = urgent] ELSE T))

\* switch_mode: the loop that clears isfloating on the active list.
Unfloat(S) ==
    Then(Walk(S, CM(S).head), LAMBDA T :
        IF T.fault # "none" THEN T
        ELSE [T EXCEPT !.clients = [a \in Addr |->
                 IF a \in Range(Chain(T.clients, CM(T).head))
                 THEN [T.clients[a] EXCEPT !.isfloating = FALSE] ELSE T.clients[a]]])

switch_mode(S, i) ==
    IF S.fault # "none" THEN S
    ELSE Then(IF CM(S).mode = i THEN Unfloat(S) ELSE S, LAMBDA T :
         Then(IF CM(S).mode = MONOCLE THEN MapList(T) ELSE T, LAMBDA U :
             IF U.fault # "none" THEN U
             ELSE desktopinfo(Refresh(tile(
                      SetCM(U, [CM(U) EXCEPT !.mode = i, !.master_size = MasterSizeOf(i)]))))))

\* resize_master with < for <= in its test.
resize_master_lax(S, i) ==
    IF S.fault # "none" THEN S
    ELSE Then(CM(S).master_size + i, LAMBDA msz :
         IF (IF CM(S).mode = BSTACK THEN WH ELSE WW) - msz < MINWSZ \/ msz < MINWSZ THEN S
         ELSE tile(SetCM(S, [CM(S) EXCEPT !.master_size = msz])))

resize_master(S, i) ==
    IF S.fault # "none" THEN S
    ELSE Then(CM(S).master_size + i, LAMBDA msz :
         IF (IF CM(S).mode = BSTACK THEN WH ELSE WW) - msz <= MINWSZ \/ msz <= MINWSZ THEN S
         ELSE tile(SetCM(S, [CM(S) EXCEPT !.master_size = msz])))

\* resize_stack ignoring a negative argument.
resize_stack_up(S, i) ==
    IF S.fault # "none" \/ i < 0 THEN S
    ELSE tile(SetCM(S, [CM(S) EXCEPT !.growth = @ + i]))

resize_stack(S, i) ==
    IF S.fault # "none" THEN S
    ELSE tile(SetCM(S, [CM(S) EXCEPT !.growth = @ + i]))

\* A rule of config.h that matched the window's class, or NoRule.
NoRule == [desktop |-> -1, follow |-> FALSE, floating |-> FALSE]

\* maprequest from select_desktop(newdsk) to select_desktop(cd).
Manage(S, w, newdsk, floating, transient, prop) ==
    Then(addwindow(Then(select_desktop(S, newdsk), LAMBDA T :
                        SetCM(T, [CM(T) EXCEPT !.prevfocus = CM(T).current])), w), LAMBDA U :
        IF U.fault # "none" THEN U
        ELSE Then([SetCM(U, [CM(U) EXCEPT !.current = U.ret])
                      EXCEPT !.clients[U.ret].istransient = transient,
                             !.clients[U.ret].isfloating  = floating \/ transient], LAMBDA V :
             select_desktop(IF prop = 0 THEN V ELSE setfullscreen(V, V.ret, prop = 2),
                            CM(S).current_desktop)))

\* Show mapping the window whatever its desktop.
Show_anywhere(S, w, newdsk, follow) ==
    desktopinfo(IF CM(S).current_desktop = newdsk THEN Refresh(xcb_map_window(tile(S), w))
                ELSE IF follow THEN change_desktop(S, newdsk)
                ELSE xcb_map_window(S, w))

\* maprequest after select_desktop(cd).
Show(S, w, newdsk, follow) ==
    desktopinfo(IF CM(S).current_desktop = newdsk THEN Refresh(xcb_map_window(tile(S), w))
                ELSE IF follow THEN change_desktop(S, newdsk)
                ELSE S)

\* maprequest without "if (wintoclient(ev->window)) return;".
maprequest_again(S, w, reply, override, rule, transient, prop) ==
    IF S.fault # "none" THEN S
    ELSE IF ~reply THEN [S EXCEPT !.fault = "segv"]
    ELSE IF override THEN S
    ELSE Then(IF rule.desktop < 0 THEN CM(S).current_desktop ELSE rule.desktop, LAMBDA newdsk :
         Show(Manage(S, w, newdsk, rule.floating, transient, prop), w, newdsk, rule.follow))

\* reply: the window-attributes query was answered; prop: the _NET_WM_STATE
\* query (0: no reply, 1: answered, not fullscreen, 2: answered, fullscreen).
maprequest(S, w, reply, override, rule, transient, prop) ==
    IF S.fault # "none" THEN S
    ELSE IF ~reply THEN [S EXCEPT !.fault = "segv"]
    ELSE IF override THEN S
    ELSE Then(wintoclient(S, w), LAMBDA T :
         IF T.fault # "none" \/ T.ret # NULL THEN T
         ELSE Then(IF rule.desktop < 0 THEN CM(T).current_desktop ELSE rule.desktop, LAMBDA newdsk :
              Show(Manage(T, w, newdsk, rule.floating, transient, prop), w, newdsk, rule.follow)))

\* mousemotion_enter marking the client before the replies are looked at.
mousemotion_enter_early(S, replies) ==
    IF S.fault # "none" \/ CM(S).current = NULL THEN [S EXCEPT !.ret = 0]
    ELSE Then(Touch(S, CM(S).current), LAMBDA T : Then(CM(T).current, LAMBDA cur :
         IF T.fault # "none" THEN T
         ELSE IF ~replies THEN [T EXCEPT !.clients[cur].isfloating = TRUE, !.ret = 0]
         ELSE [Emit([(IF T.clients[cur].isfullscrn THEN setfullscreen(T, cur, FALSE) ELSE T)
                        EXCEPT !.clients[cur].isfloating = TRUE], <<"grab", 0>>)
                  EXCEPT !.ret = 1]))

\* mousemotion up to its event loop: ret is 1 when the loop is entered.
\* replies: the geometry and pointer queries were answered and the grab succeeded.
mousemotion_enter(S, replies) ==
    IF S.fault # "none" \/ CM(S).current = NULL \/ ~replies THEN [S EXCEPT !.ret = 0]
    ELSE Then(Touch(S, CM(S).current), LAMBDA T : Then(CM(T).current, LAMBDA cur :
         IF T.fault # "none" THEN T
         ELSE [Emit([(IF T.clients[cur].isfullscrn THEN setfullscreen(T, cur, FALSE) ELSE T)
                        EXCEPT !.clients[cur].isfloating = TRUE], <<"grab", 0>>)
                  EXCEPT !.ret = 1]))

\* mousemotion after its loop.
mousemotion_leave(S) == tile(Refresh(Emit(S, <<"ungrab", 0>>)))

\* One XCB_MOTION_NOTIFY inside the loop; area is areatomonitor(xw, yh).
mousemotion_motion(S, arg, area) ==
    Then(Touch(S, CM(S).current), LAMBDA T :
        IF T.fault # "none" THEN T
        ELSE Then(Emit(T, <<IF arg = MOVE THEN "move" ELSE "resize", T.clients[CM(T).current].win>>),
                  LAMBDA U :
             IF arg = MOVE /\ area # U.current_monitor
             THEN change_monitor(client_to_monitor(U, area), area)
             ELSE U))

\* buttonpress for a buttons[] in which at most one entry matches a press.
\* binding: the function of that entry ("none", "move": mousemotion MOVE,
\* "resize": mousemotion RESIZE).
buttonpress(S, w, button1, binding, replies) ==
    Then(wintoclient(S, w), LAMBDA T : Then(T.ret, LAMBDA c :
        IF T.fault # "none" \/ c = NULL THEN [T EXCEPT !.ret = 0]
        ELSE Then(IF S.config.CLICK_TO_FOCUS /\ CM(T).current # c /\ button1
                  THEN update_current(T, c) ELSE T, LAMBDA U :
             IF binding = "none" THEN [U EXCEPT !.ret = 0]
             ELSE mousemotion_enter(update_current(U, c), replies))))

\* ------------------------------------------------------ keys[] and buttons[]
\* A modifier mask is the set of its bits. numlockmask is what setup_keyboard
\* found: no bit, or the bit of the modifier that carries Num_Lock.
CLEANMASK(S, mask) == mask \ (S.config.numlockmask \cup {"lock"})

\* retval = arg->i; running = false;
quit(S, arg) ==
    IF S.fault # "none" THEN S ELSE [S EXCEPT !.retval = arg, !.running = FALSE]

\* keys[i].func(&keys[i].arg), buttons[i].func(&buttons[i].arg): the call
\* through the function pointer, noted as <<"call", i>>.
Call(S, i, func, arg) ==
    Then(Emit(S, <<"call", i>>), LAMBDA T :
        CASE func = "change_desktop" -> change_desktop(T, arg)
          [] func = "next_win" -> next_win(T)
          [] func = "switch_mode" -> switch_mode(T, arg)
          [] func = "quit" -> quit(T, arg)
          [] OTHER -> T)

RECURSIVE keypress_from(_, _, _, _)
\* keypress's loop from entry i of keys[].
keypress_from(S, keysym, state, i) ==
    IF S.fault # "none" \/ i > Len(S.config.keys) THEN S
    ELSE Then(S.config.keys[i], LAMBDA k :
         keypress_from(IF keysym = k.keysym /\ CLEANMASK(S, k.mod) = CLEANMASK(S, state)
                          /\ k.func # "NULL"
                       THEN Call(S, i, k.func, k.arg) ELSE S,
                       keysym, state, i + 1))

\* keypress leaving keys[] at the first entry that matches.
keypress_first(S, keysym, state) ==
    Then({i \in 1..Len(S.config.keys) :
            /\ keysym = S.config.keys[i].keysym
            /\ CLEANMASK(S, S.config.keys[i].mod) = CLEANMASK(S, state)
            /\ S.config.keys[i].func # "NULL"}, LAMBDA is :
         IF is = {} THEN S
         ELSE Then(CHOOSE i \in is : \A j \in is : i <= j, LAMBDA i :
                   Call(S, i, S.config.keys[i].func, S.config.keys[i].arg)))

keypress(S, keysym, state) == keypress_from(S, keysym, state, 1)

RECURSIVE buttons_from(_, _, _, _, _, _)
\* buttonpress's loop from entry i of buttons[], for the client c of the
\* window pressed on; ret is 1 when the loop of mousemotion is entered. The
\* tables of ButtonTables bind mousemotion after the other functions of a
\* button, so that nothing is left to call when that loop ends.
buttons_from(S, c, detail, state, replies, i) ==
    IF S.fault # "none" THEN S
    ELSE IF i > Len(S.config.buttons) THEN [S EXCEPT !.ret = 0]
    ELSE Then(S.config.buttons[i], LAMBDA b :
         IF ~(b.func # "NULL" /\ b.button = detail
                /\ CLEANMASK(S, b.mask) = CLEANMASK(S, state))
         THEN buttons_from(S, c, detail, state, replies, i + 1)
         ELSE Then(update_current(S, c), LAMBDA T :
              IF b.func = "mousemotion"
              THEN Then(mousemotion_enter(Emit(T, <<"call", i>>), replies), LAMBDA U :
                        IF U.fault = "none" /\ U.ret = 1 THEN U
                        ELSE buttons_from(U, c, detail, state, replies, i + 1))
              ELSE buttons_from(Call(T, i, b.func, b.arg), c, detail, state, replies, i + 1)))

\* buttonpress with buttons[] as config.h has it.
buttonpress_table(S, w, detail, state, replies) ==
    Then(wintoclient(S, w), LAMBDA T : Then(T.ret, LAMBDA c :
        IF T.fault # "none" \/ c = NULL THEN [T EXCEPT !.ret = 0]
        ELSE buttons_from(IF S.config.CLICK_TO_FOCUS /\ CM(T).current # c /\ detail = 1
                          THEN update_current(T, c) ELSE T,
                          c, detail, state, replies, 1)))

\* ------------------------------------------------------- the end of the run
\* exit(EXIT_FAILURE)
EXIT_FAILURE == 1

deletewindow(S, w) == Emit(S, <<"close", w>>)

\* die(): the message on standard error, then exit(EXIT_FAILURE). Nothing is
\* registered to run at exit.
die(S) == [Emit(S, <<"stderr", 0>>) EXCEPT !.ret = EXIT_FAILURE]

RECURSIVE cleanup_children(_, _, _)
\* for (i = 0; i < nchildren; i++) deletewindow(reply[i].parent): reply is one
\* record of 32 bytes followed by nchildren window ids of 4 bytes, and
\* reply[i].parent is the 4 bytes from byte 32 * i + 12 of it. reply[0].parent
\* is the parent of the root (none, 0); for i > 0 the bytes are those of child
\* 8 * i - 5 when there is one, and else lie behind what was allocated.
cleanup_children(S, nchildren, i) ==
    IF S.fault # "none" \/ i >= nchildren THEN S
    ELSE cleanup_children(
             IF i = 0 THEN deletewindow(S, 0)
             ELSE IF 32 * i + 16 <= 32 + 4 * nchildren
                  THEN deletewindow(S, <<"child", 8 * i - 5>>)
                  ELSE [S EXCEPT !.fault = "ub"],
             nchildren, i + 1)

\* cleanup(), for the reply of its tree query (reply: there is one).
cleanup(S, reply, nchildren) ==
    Then(Emit(S, <<"ungrab_key", 0>>), LAMBDA T :
    Then(IF reply THEN cleanup_children(T, nchildren, 0) ELSE T, LAMBDA U :
         IF U.fault # "none" THEN U
         ELSE [Emit(U, <<"focus", 0>>) EXCEPT !.focus = 0]))

\* main() after run() has returned: cleanup(); closeconnection(); return retval;
main_return(S, reply, nchildren) ==
    Then(cleanup(S, reply, nchildren), LAMBDA T :
         IF T.fault # "none" THEN T
         ELSE [Emit(T, <<"disconnect", 0>>) EXCEPT !.ret = T.retval])

\* ---------------------------------------------------------------- startup
SHOW_PANEL == TRUE

InitDesktop ==
    [master_size |-> MasterSizeOf(DEFAULT_MODE), mode |-> DEFAULT_MODE, growth |-> 0,
     head |-> NULL, current |-> NULL, showpanel |-> SHOW_PANEL, prevfocus |-> NULL]

\* setup_monitor: the active context, copied into every slot by save_desktop.
InitMonitor ==
    [current_desktop |-> DEFAULT_DESKTOP, previous_desktop |-> 0,
     master_size |-> MasterSizeOf(DEFAULT_MODE), mode |-> DEFAULT_MODE, growth |-> 0,
     head |-> NULL, current |-> NULL, showpanel |-> SHOW_PANEL, prevfocus |-> NULL,
     desktops |-> [d \in Desktops |-> InitDesktop]]

Configs ==
    [ATTACH_ASIDE : BOOLEAN, FOLLOW_WINDOW : BOOLEAN, FOLLOW_MOUSE : BOOLEAN,
     CLICK_TO_FOCUS : BOOLEAN]

Unwatched == [op |-> "-", w |-> 0, i |-> 0, f |-> FALSE, cmds |-> <<>>]

\* last after the event or command op whose handler returned R: recorded
\* when op is watched, with R's commands when "cmds" is watched too and
\* with what desktopinfo prints when "print" is watched. After
\* an op that is not watched last is blank or, when "keep" is watched, as it
\* was but for its op.
Observe(R, op, w, i, f) ==
    /\ watch' = watch
    /\ probe' = probe
    /\ last' = IF op \in watch
               THEN [op |-> op, w |-> w, i |-> i, f |-> f,
                     cmds |-> SelectSeq(R.cmds, LAMBDA c :
                                 IF c[1] = "print" THEN "print" \in watch ELSE "cmds" \in watch)]
               ELSE IF "keep" \in watch THEN [last EXCEPT !.op = "-"] ELSE Unwatched

\* No layout call is followed.
NoProbe == [fn |-> "-", el |-> <<>>, g |-> <<>>, out |-> <<>>, done |-> FALSE]

\* No window exists: every border is as a window's owner makes it (width -1,
\* pixel "own"), and the stacking order (bottom to top) is empty.
NoDisplay == [border |-> [w \in Win |-> [width |-> 0 - 1, pixel |-> "own"]], order |-> <<>>]

\* The state in which run() first waits, for a config.h among cs; ws: the
\* kinds of events and commands to record in last.
Boot(cs, ws) ==
    /\ watch = ws
    /\ monitors = [m \in Monitors |-> InitMonitor]
    /\ clients = [a \in Addr |-> ZeroClient]
    /\ current_monitor = DEFAULT_MONITOR
    /\ previous_monitor = IF DEFAULT_MONITOR = MONITORS - 1 THEN 0 ELSE MONITORS - 1
    /\ mapped = {}
    /\ focus = 0
    /\ display = NoDisplay
    /\ config \in cs
    /\ pc = "idle"
    /\ running = TRUE
    /\ retval = 0
    /\ status = 0
    /\ dragarg = 0
    /\ last = Unwatched

Setup(cs, ws) == Boot(cs, ws) /\ probe = NoProbe

\* ------------------------------------------------------------ observations
\* Desktop d of monitor m: the active context when d is m's active desktop,
\* else the saved slot.
Desk(ms, m, d) ==
    IF ms[m].current_desktop = d
    THEN [head |-> ms[m].head, current |-> ms[m].current, prevfocus |-> ms[m].prevfocus,
          mode |-> ms[m].mode, master_size |-> ms[m].master_size, growth |-> ms[m].growth]
    ELSE [head |-> ms[m].desktops[d].head, current |-> ms[m].desktops[d].current,
          prevfocus |-> ms[m].desktops[d].prevfocus, mode |-> ms[m].desktops[d].mode,
          master_size |-> ms[m].desktops[d].master_size, growth |-> ms[m].desktops[d].growth]

\* The client list of desktop d of monitor m.
ListOf(ms, cl, m, d) == Chain(cl, Desk(ms, m, d).head)

\* p is absent or a record linked in the list from h.
InList(cl, h, p) == p = NULL \/ (cl[p].live /\ p \in Range(Chain(cl, h)))

\* Window w has a client record.
Tracked(cl, w) == \E a \in Addr : cl[a].live /\ cl[a].win = w

\* The record that wintoclient finds for a tracked window w.
RecordOf(cl, w) == CHOOSE a \in Addr : cl[a].live /\ cl[a].win = w

\* The (monitor, desktop) lists that hold record a.
Holders(ms, cl, a) ==
    {md \in Monitors \X Desktops : a \in Range(ListOf(ms, cl, md[1], md[2]))}

\* ------------------------------------------------------------- transitions
\* The handler's result R becomes the state; the borders and the stacking
\* order are followed when "border" and "order" are watched. A handler that dereferenced a
\* null pointer or never returns ends the run ("dead"); after undefined
\* behaviour nothing is known of the process ("undefined").
Commit(R, npc, narg) ==
    /\ config' = config
    /\ IF R.fault = "none"
       THEN /\ monitors' = R.monitors
            /\ clients' = R.clients
            /\ current_monitor' = R.current_monitor
            /\ previous_monitor' = R.previous_monitor
            /\ mapped' = R.mapped
            /\ focus' = R.focus
            /\ display' = [border |-> IF "border" \in watch THEN R.display.border
                                       ELSE display.border,
                            order  |-> IF "order" \in watch THEN R.display.order
                                       ELSE display.order]
            /\ running' = R.running
            /\ retval' = R.retval
            /\ status' = IF npc = "exited" THEN R.ret ELSE status
            /\ pc' = npc
            /\ dragarg' = narg
       ELSE /\ pc' = IF R.fault = "ub" THEN "undefined" ELSE "dead"
            /\ dragarg' = 0
            /\ UNCHANGED <<monitors, clients, current_monitor, previous_monitor, mapped, focus,
                           display, running, retval, status>>

\* The end of one pass of run()'s loop, or of mousemotion's loop: the latter
\* goes on while (!ungrab && CM->current).
Handled(R, op, w, i, f) ==
    /\ Observe(R, op, w, i, f)
    /\ IF pc = "drag" /\ R.fault = "none" /\ CM(R).current = NULL
       THEN Commit(mousemotion_leave(R), "idle", 0)
       ELSE Commit(R, pc, dragarg)

\* The end of a pass of run()'s loop whose handler may have entered the loop
\* of mousemotion (ret = 1) with argument arg.
Pressed(R, op, w, arg, f) ==
    /\ Observe(R, op, w, arg, f)
    /\ IF R.ret = 1 THEN Commit(R, "drag", arg) ELSE Commit(R, "idle", 0)

\* Window w, when it asks to be shown for the first time, has just been made:
\* the window system puts a new window on top.
Created(S, w) ==
    IF w \in Range(S.display.order) THEN S
    ELSE [S EXCEPT !.display.order = Append(@, w)]

\* The window system has destroyed window w.
Destroyed(S, w) ==
    [S EXCEPT !.mapped = @ \ {w},
              !.display = [border |-> [@.border EXCEPT ![w] = NoDisplay.border[w]],
                           order |-> SelectSeq(@.order, LAMBDA v : v # w)]]

\* run() waits for an event: while(running) let the pass begin.
Running  == pc = "idle" /\ running
Dragging == pc = "drag"

MapRequest(w, override, rule, transient, prop) ==
    /\ Running \/ Dragging
    /\ w \notin mapped
    /\ Handled(maprequest(Created(Machine, w), w, TRUE, override, rule, transient, prop),
               IF override THEN "maprequest_override"
               ELSE IF Tracked(clients, w) THEN "maprequest_tracked" ELSE "maprequest",
               w, rule.desktop, rule.follow)

ConfigureRequest(w) ==
    /\ Running \/ Dragging
    /\ Handled(configurerequest(Created(Machine, w), NoValues(w)), "configurerequest", w, 0,
               FALSE)

\* A configure request with the fields and the values of ev.
ConfigureEvent(ev) ==
    /\ Running
    /\ Handled(configurerequest(Created(Machine, ev.window), ev), "configurerequest",
               ev.window, ev, FALSE)

TogglePanel ==
    Running /\ Handled(togglepanel(Machine), "togglepanel", 0, 0, FALSE)

\* What the window system tells of window w: 2 when w has a client record,
\* 1 when it has none and is shown (killclient has closed it), else 0.
Standing(w) == IF Tracked(clients, w) THEN 2 ELSE IF w \in mapped THEN 1 ELSE 0

\* The window system has destroyed window w. When "where" is watched, last
\* tells whether the list of the desktop shown on the active monitor held
\* w's record.
DestroyNotify(w) ==
    /\ Running
    /\ Handled(destroynotify(Destroyed(Machine, w), w), "destroynotify", w,
               Standing(w),
               /\ "where" \in watch
               /\ Tracked(clients, w)
               /\ <<current_monitor, monitors[current_monitor].current_desktop>>
                     \in Holders(monitors, clients, RecordOf(clients, w)))

UnmapNotify(w, fromroot) ==
    /\ Running
    /\ Handled(unmapnotify([Machine EXCEPT !.mapped = @ \ {w}], w, fromroot),
               "unmapnotify", w, Standing(w), fromroot)

EnterNotify(w, normal) ==
    /\ Running
    /\ w \in mapped
    /\ Handled(enternotify(Machine, w, normal), "enternotify", w, 0, normal)

ClientMessage(w, kind, action) ==
    /\ Running
    /\ Handled(clientmessage(Machine, w, TRUE, kind, action), kind, w, action, FALSE)

PropertyNotify(w, urgent) ==
    /\ Running
    /\ Handled(propertynotify(Machine, w, TRUE, urgent), "propertynotify", w, 0, urgent)

\* A map request for a window whose attributes query gets no reply (the
\* window is gone by the time it is asked about).
MapRequestUnanswered(w) ==
    /\ Running \/ Dragging
    /\ w \notin mapped
    /\ Handled(maprequest(Machine, w, FALSE, FALSE, NoRule, FALSE, 0), "maprequest_unanswered",
               w, 0, FALSE)

\* A property notification for w whose WM_HINTS query gets no reply.
PropertyUnanswered(w) ==
    /\ Running
    /\ Handled(propertynotify(Machine, w, FALSE, FALSE), "property_unanswered", w, 0, FALSE)

ButtonPress(w, button1, binding, replies) ==
    /\ Running
    /\ w \in mapped
    /\ Pressed(buttonpress(Machine, w, button1, binding, replies), "buttonpress", w,
               IF binding = "move" THEN MOVE ELSE IF binding = "resize" THEN RESIZE ELSE 0,
               replies)

\* The index of the entry that the last call of cmds went through.
LastCall(cmds) ==
    cmds[CHOOSE j \in 1..Len(cmds) :
            cmds[j][1] = "call" /\ \A k \in (j + 1)..Len(cmds) : cmds[k][1] # "call"][2]

\* while(running) fails: run() returns to main(), which ends the process.
RunReturns(reply, nchildren) ==
    /\ pc = "idle" /\ ~running
    /\ Observe(main_return(Machine, reply, nchildren), "return", 0, nchildren, reply)
    /\ Commit(main_return(Machine, reply, nchildren), "exited", 0)

\* The connection to the window system breaks. run() finds it broken at the
\* start of its next pass and dies; mousemotion's loop asks for an event again
\* and again: while(!(e = xcb_wait_for_event(dis))) xcb_flush(dis);
ConnectionError ==
    \/ /\ Running
       /\ Observe(die(Machine), "error", 0, 0, FALSE)
       /\ Commit(die(Machine), "exited", 0)
    \/ /\ Dragging
       /\ Observe([Machine EXCEPT !.fault = "hang"], "error", 0, 0, TRUE)
       /\ Commit([Machine EXCEPT !.fault = "hang"], "dead", 0)

\* A key press with the keysym and the modifier state of the event.
KeyPress(keysym, state) ==
    Running /\ Handled(keypress(Machine, keysym, state), "keypress", keysym, state, FALSE)

\* A button press on window w with the button and the modifier state of the
\* event, for the buttons[] of config.h.
ButtonPressTable(w, detail, state, replies) ==
    /\ Running
    /\ w \in mapped
    /\ Observe(buttonpress_table(Machine, w, detail, state, replies), "buttonpress", w,
               <<detail, state>>, replies)
    /\ IF buttonpress_table(Machine, w, detail, state, replies).ret = 1
       THEN Commit(buttonpress_table(Machine, w, detail, state, replies), "drag",
                   config.buttons[LastCall(buttonpress_table(Machine, w, detail, state,
                                                             replies).cmds)].arg)
       ELSE Commit(buttonpress_table(Machine, w, detail, state, replies), "idle", 0)

\* The functions bound to keys.
ChangeDesktop(i) ==
    Running /\ Handled(change_desktop(Machine, i), "change_desktop", 0, i, FALSE)

ChangeMonitor(i) ==
    Running /\ Handled(change_monitor(Machine, i), "change_monitor", 0, i, FALSE)

ClientToDesktop(i) ==
    Running /\ Handled(client_to_desktop(Machine, i), "client_to_desktop", 0, i, FALSE)

ClientToMonitor(i) ==
    Running /\ Handled(client_to_monitor(Machine, i), "client_to_monitor", 0, i, FALSE)

KillClient ==
    Running /\ Handled(killclient(Machine), "killclient", 0, 0, FALSE)

NextWin ==
    Running /\ Handled(next_win(Machine), "next_win", 0, 0, FALSE)

MoveDown ==
    Running /\ Handled(move_down(Machine), "move_down", 0, 0, FALSE)

MoveUp ==
    Running /\ Handled(move_up(Machine), "move_up", 0, 0, FALSE)

SwapMaster ==
    Running /\ Handled(swap_master(Machine), "swap_master", 0, 0, FALSE)

PrevWin ==
    Running /\ Handled(prev_win(Machine), "prev_win", 0, 0, FALSE)

FocusUrgent ==
    Running /\ Handled(focusurgent(Machine), "focusurgent", 0, 0, FALSE)

SwitchMode(i) ==
    Running /\ Handled(switch_mode(Machine, i), "switch_mode", 0, i, FALSE)

ResizeMaster(i) ==
    Running /\ Handled(resize_master(Machine, i), "resize_master", 0, i, FALSE)

\* growth has no bound in the code: the model stops at MaxGrowth steps.
ResizeStack(i) ==
    /\ Running
    /\ CM(Machine).growth + i \in (0 - MaxGrowth * GrowStep)..(MaxGrowth * GrowStep)
    /\ Handled(resize_stack(Machine, i), "resize_stack", 0, i, FALSE)

\* The events of the loop of mousemotion.
DragMotion(area) ==
    /\ Dragging
    /\ Handled(mousemotion_motion(Machine, dragarg, area), "motionnotify", 0, area, FALSE)

\* A button or key event: ungrab = true, and mousemotion returns.
DragRelease ==
    /\ Dragging
    /\ Observe(mousemotion_leave(Machine), "release", 0, 0, FALSE)
    /\ Commit(mousemotion_leave(Machine), "idle", 0)

\* An event of any other kind: freed unhandled by the switch of the loop.
\* A destroy notification tells that the window system has destroyed w.
DragIgnored(kind, w) ==
    /\ Dragging
    /\ Handled(IF kind = "destroynotify" THEN Destroyed(Machine, w) ELSE Machine,
               kind, w, 0, FALSE)

\* ------------------------------------------------------------ specifications
FewWin == 2

Few == 1..FewWin

\* The rules of config.h: none matches, or one that sends the window to desktop d.
Rules == {NoRule} \cup {[desktop |-> d, follow |-> f, floating |-> FALSE] : d \in Desktops, f \in BOOLEAN}

StayRules == {r \in Rules : ~r.follow}

\* config.h as distributed but for the attach policy: the focus follows
\* neither a moved window nor the pointer.
PlainConfigs == {c \in Configs : ~c.FOLLOW_WINDOW /\ ~c.FOLLOW_MOUSE /\ ~c.CLICK_TO_FOCUS}

AsideConfigs == {c \in PlainConfigs : c.ATTACH_ASIDE}

\* The focus follows the pointer and the click.
MouseConfigs == {c \in Configs : c.ATTACH_ASIDE /\ ~c.FOLLOW_WINDOW /\ c.FOLLOW_MOUSE /\ c.CLICK_TO_FOCUS}

\* SpecFocus: the events and commands that move the focus, with the active
\* monitor fixed.
InitFocus == Setup(MouseConfigs, {"killclient", "destroynotify"})

NextFocus ==
    \/ \E w \in Few, r \in StayRules : MapRequest(w, FALSE, r, FALSE, 0)
    \/ \E w \in Few : DestroyNotify(w)
    \/ \E w \in Few : ClientMessage(w, "active", 0)
    \/ \E w \in Few : EnterNotify(w, TRUE)
    \/ \E w \in Few : ButtonPress(w, TRUE, "none", TRUE)
    \/ \E i \in Desktops : ChangeDesktop(i)
    \/ KillClient

SpecFocus == InitFocus /\ [][NextFocus]_vars

\* C1: whenever the manager waits for an event, on every desktop of every
\* monitor (the active context and every saved slot) head, current and
\* prevfocus are each absent or a client linked in that desktop's own list.
C1_PointersInOwnList ==
    pc = "idle" =>
        \A m \in Monitors, d \in Desktops :
            LET k == Desk(monitors, m, d)
                s == monitors[m].desktops[d]
            IN /\ InList(clients, k.head, k.head)
               /\ InList(clients, k.head, k.current)
               /\ InList(clients, k.head, k.prevfocus)
               /\ InList(clients, k.head, s.head)
               /\ InList(clients, k.head, s.current)
               /\ InList(clients, k.head, s.prevfocus)

\* SpecLists: the operations that add, remove and move client records, over
\* MaxWin windows and both attach policies.
InitLists == Setup(PlainConfigs, {})

NextLists ==
    \/ \E w \in Win, r \in StayRules : MapRequest(w, FALSE, r, FALSE, 0)
    \/ \E w \in Win : DestroyNotify(w)
    \/ \E w \in Win : UnmapNotify(w, FALSE)
    \/ \E i \in Desktops : ClientToDesktop(i)
    \/ \E i \in Monitors : ClientToMonitor(i)
    \/ KillClient

SpecLists == InitLists /\ [][NextLists]_vars

\* C2: after any sequence of map requests, destroy / unmap notifications,
\* killclient, client_to_desktop and client_to_monitor, every client record is
\* linked into exactly one (monitor, desktop) list, no record appears twice
\* in a list, and every list is a finite acyclic chain of records from its
\* head; none of these operations runs into undefined behaviour.
C2_ExactlyOneList ==
    /\ pc # "undefined"
    /\ \A a \in Addr : clients[a].live => Cardinality(Holders(monitors, clients, a)) = 1
    /\ \A m \in Monitors, d \in Desktops :
           /\ ~Cyclic(clients, Desk(monitors, m, d).head)
           /\ \A a \in Range(ListOf(monitors, clients, m, d)) : clients[a].live

\* Three records, two of them in one list and the third on the other monitor,
\* after a record has been moved and freed.
C2_Witness ==
    /\ pc = "idle"
    /\ Cardinality({a \in Addr : clients[a].live}) = 3
    /\ \E d \in Desktops : Len(ListOf(monitors, clients, 0, d)) = 2
    /\ \E d \in Desktops : Len(ListOf(monitors, clients, 1, d)) = 1
    /\ \E a \in Addr : a > MaxWin /\ clients[a].live

\* SpecLife: the life of clients over FewWin windows, with the desktop and
\* the focus switched in between; removals are recorded in last.
InitLife == Setup(PlainConfigs, {"killclient", "destroynotify", "unmapnotify"})

NextLife ==
    \/ \E w \in Few, r \in StayRules : MapRequest(w, FALSE, r, FALSE, 0)
    \/ \E w \in Few : DestroyNotify(w)
    \/ \E w \in Few, r \in BOOLEAN : UnmapNotify(w, r)
    \/ \E i \in Desktops : ChangeDesktop(i)
    \/ \E i \in Desktops : ClientToDesktop(i)
    \/ \E i \in Monitors : ClientToMonitor(i)
    \/ KillClient
    \/ NextWin

SpecLife == InitLife /\ [][NextLife]_vars

\* The record that the step recorded in last' has passed to removeclient:
\* CM->current for killclient, the record of the window for a notification.
Victim ==
    IF last'.op = "killclient" THEN CM(Machine).current
    ELSE IF Tracked(clients, last'.w) THEN RecordOf(clients, last'.w) ELSE NULL

\* removeclient has returned from removing a record that was current on the
\* desktop md whose list held it.
RemovedCurrentOf(md) ==
    /\ pc = "idle" /\ pc' = "idle"
    /\ last'.op \in {"killclient", "destroynotify"}
    /\ Victim # NULL
    /\ clients[Victim].live
    /\ md \in Holders(monitors, clients, Victim)
    /\ Desk(monitors, md[1], md[2]).current = Victim

\* C3: whenever removeclient is applied to the client that is current on its
\* desktop, afterwards that desktop's current is a client still linked in a
\* desktop list, or absent if the desktop has no client left, and no
\* desktop's current or prevfocus references the removed, freed record.
C3_CurrentAfterRemove ==
    [][\A md \in Monitors \X Desktops :
          RemovedCurrentOf(md) =>
              /\ LET cur == Desk(monitors', md[1], md[2]).current
                 IN IF ListOf(monitors', clients', md[1], md[2]) = <<>>
                    THEN cur = NULL
                    ELSE cur # NULL /\ clients'[cur].live
                         /\ Holders(monitors', clients', cur) # {}
              /\ \A m \in Monitors, d \in Desktops :
                     /\ Desk(monitors', m, d).current # Victim
                     /\ Desk(monitors', m, d).prevfocus # Victim]_vars

\* SpecDrag: windows are mapped, dragged with the mouse (move or resize) and
\* destroyed; the destroy notifications are recorded in last.
InitDrag == Setup(MouseConfigs, {"destroynotify"})

NextDrag ==
    \/ \E w \in Few : MapRequest(w, FALSE, NoRule, FALSE, 0)
    \/ \E w \in Few : DestroyNotify(w)
    \/ \E w \in Few, b \in {"none", "move", "resize"}, r \in BOOLEAN : ButtonPress(w, TRUE, b, r)
    \/ \E a \in Monitors : DragMotion(a)
    \/ \E w \in Few, k \in {"destroynotify", "enternotify"} : DragIgnored(k, w)
    \/ DragRelease

SpecDrag == InitDrag /\ [][NextDrag]_vars

\* C4: once a destroy notification for a window has been received, in the
\* outer loop or while a drag is active, no client record holds that window
\* when the manager waits for the next event.
C4_DestroyUnlinks ==
    [][(last'.op = "destroynotify" /\ pc' \in {"idle", "drag"})
           => ~Tracked(clients', last'.w)]_vars

\* The head, current and prevfocus of every desktop of every monitor.
Pointers(ms) ==
    [m \in Monitors |-> [d \in Desktops |->
        <<Desk(ms, m, d).head, Desk(ms, m, d).current, Desk(ms, m, d).prevfocus>>]]

\* C5: a destroy or unmap notification for a window that has no client record
\* leaves every client list and every head, current and prevfocus unchanged
\* and the manager waiting for the next event; killclient removes the record
\* of the current client at once, so that the window's later destroy
\* notification finds none.
C5_UntrackedNotifyIsNoOp ==
    [][/\ (pc = "idle" /\ last'.op \in {"destroynotify", "unmapnotify"}
              /\ ~Tracked(clients, last'.w))
          => (pc' = "idle" /\ clients' = clients /\ Pointers(monitors') = Pointers(monitors))
       /\ (pc = "idle" /\ last'.op = "killclient" /\ CM(Machine).current # NULL)
          => (/\ pc' = "idle"
              /\ ~clients'[CM(Machine).current].live
              /\ ~Tracked(clients', clients[CM(Machine).current].win))]_vars

\* The destroy notification of a window that killclient had removed has been
\* handled while another client is tracked.
C5_Witness ==
    /\ pc = "idle"
    /\ last.op = "destroynotify" /\ last.i = 1
    /\ \E a \in Addr : clients[a].live

\* SpecMap: map requests for new, tracked and override-redirect windows,
\* with rules that follow or stay, between moves, switches and removals.
InitMap == Setup(AsideConfigs, {"maprequest_override", "maprequest_tracked"})

NextMap ==
    \/ \E w \in Few, o \in BOOLEAN, r \in Rules : MapRequest(w, o, r, FALSE, 0)
    \/ \E w \in Few : DestroyNotify(w)
    \/ \E i \in Desktops : ChangeDesktop(i)
    \/ \E i \in Desktops : ClientToDesktop(i)
    \/ \E i \in Monitors : ClientToMonitor(i)
    \/ KillClient

SpecMap == InitMap /\ [][NextMap]_vars

\* What the handlers read of the monitors: the active and previous desktop
\* and every desktop's fields (the active context for the active desktop).
View(ms) ==
    [m \in Monitors |->
        [current_desktop |-> ms[m].current_desktop,
         previous_desktop |-> ms[m].previous_desktop,
         showpanel |-> ms[m].showpanel,
         desks |-> [d \in Desktops |-> Desk(ms, m, d)]]]

\* C6: a map request for an override-redirect window, or for a window that
\* has a client record on some monitor and desktop, changes no manager state;
\* whenever the manager waits for an event no window is held by two records.
C6_MapRequestDropped ==
    [][/\ (pc = "idle" /\ last'.op = "maprequest_override")
          => UNCHANGED <<monitors, clients, current_monitor, previous_monitor, mapped, focus, pc>>
       /\ (pc = "idle" /\ last'.op = "maprequest_tracked")
          => (/\ View(monitors') = View(monitors)
              /\ UNCHANGED <<clients, current_monitor, previous_monitor, mapped, focus, pc>>)
       /\ pc' = "idle"
          => \A a, b \in Addr :
                 (a # b /\ clients'[a].live /\ clients'[b].live) => clients'[a].win # clients'[b].win]_vars

\* A map request for the window of a record that lives on a hidden desktop
\* has been dropped, while the other window is tracked too.
C6_Witness ==
    /\ pc = "idle"
    /\ last.op = "maprequest_tracked"
    /\ \E d \in Desktops :
           /\ d # CM(Machine).current_desktop
           /\ <<current_monitor, d>> \in Holders(monitors, clients, RecordOf(clients, last.w))
    /\ Cardinality({a \in Addr : clients[a].live}) = FewWin

\* SpecDesk: the desktops of the active monitor get clients, layout modes,
\* master sizes and growths of their own, and are switched.
InitDesk == Setup(AsideConfigs, {})

NextDesk ==
    \/ \E w \in Few : MapRequest(w, FALSE, NoRule, FALSE, 0)
    \/ \E i \in Desktops : ChangeDesktop(i)
    \/ \E i \in {TILE, MONOCLE} : SwitchMode(i)
    \/ ResizeMaster(MasterStep)
    \/ CM(Machine).growth < GrowStep /\ ResizeStack(GrowStep)
    \/ NextWin

SpecDesk == InitDesk /\ [][NextDesk]_vars

\* The fields of the active context that select_desktop saves and loads.
Context(m) == <<m.head, m.current, m.prevfocus, m.mode, m.master_size, m.growth>>

\* The fields of every desktop of the active monitor.
Desks(S) == [d \in Desktops |-> Desk(S.monitors, S.current_monitor, d)]

\* The machine state after select_desktop(i); select_desktop(j); select_desktop(i).
RoundTrip(i, j) == select_desktop(select_desktop(select_desktop(Machine, i), j), i)

\* C7: for all desktops i and j, the active context after select_desktop(i);
\* select_desktop(j); select_desktop(i) equals in head, current, prevfocus,
\* mode, master_size and growth the active context after the first
\* select_desktop(i), which is the context active before when i was active;
\* every desktop keeps its own fields throughout.
C7_SelectRoundTrip ==
    pc = "idle" =>
        \A i, j \in Desktops :
            /\ Context(CM(RoundTrip(i, j))) = Context(CM(select_desktop(Machine, i)))
            /\ RoundTrip(i, j).monitors[current_monitor].current_desktop = i
            /\ i = CM(Machine).current_desktop
               => Context(CM(select_desktop(Machine, i))) = Context(CM(Machine))
            /\ Desks(select_desktop(Machine, i)) = Desks(Machine)
            /\ Desks(select_desktop(select_desktop(Machine, i), j)) = Desks(Machine)
            /\ Desks(RoundTrip(i, j)) = Desks(Machine)

\* Two desktops that differ in every saved field, the hidden one selected
\* first, while the saved slot of the active desktop is out of date in its
\* focus, master size and growth.
C7_Witness ==
    /\ pc = "idle"
    /\ \E i, j \in Desktops :
           LET A == CM(select_desktop(Machine, i))
               B == CM(select_desktop(select_desktop(Machine, i), j))
               s == CM(Machine).desktops[j]
           IN /\ j = CM(Machine).current_desktop /\ i # j
              /\ \A k \in 1..6 : Context(A)[k] # Context(B)[k]
              /\ \A k \in {2, 3, 5, 6} : Context(s)[k] # Context(B)[k]
              /\ Context(CM(RoundTrip(i, j))) = Context(A)

\* SpecPlace: windows of every kind (floating by rule, transient, fullscreen)
\* ask to be mapped under every rule, on desktops in tiled or monocle mode.
AnyRules == [desktop : {-1} \cup Desktops, follow : BOOLEAN, floating : BOOLEAN]

InitPlace == Setup(AsideConfigs, {"maprequest"})

NextPlace ==
    \/ \E w \in Few, r \in AnyRules, t \in BOOLEAN, p \in {0, 2} : MapRequest(w, FALSE, r, t, p)
    \/ \E w \in Few : DestroyNotify(w)
    \/ \E i \in Desktops : ChangeDesktop(i)
    \/ \E i \in {TILE, MONOCLE} : SwitchMode(i)

SpecPlace == InitPlace /\ [][NextPlace]_vars

\* The desktop that a rule with desktop field i targets when desktop cd is active.
Target(i, cd) == IF i < 0 THEN cd ELSE i

\* Window w has a record linked in the list of desktop t of monitor m that
\* is t's current client.
PlacedOn(ms, cl, m, t, w) ==
    /\ Tracked(cl, w)
    /\ RecordOf(cl, w) \in Range(ListOf(ms, cl, m, t))
    /\ Desk(ms, m, t).current = RecordOf(cl, w)

\* C8: a map request of an untracked, non-override window whose rule targets
\* desktop t of the active monitor links the new client in t's list as t's
\* current client; t active: the window is mapped and is the focused current
\* client; t not active, follow: t becomes the active desktop; t not active,
\* no follow: the active desktop and its current client are unchanged and
\* the window is not mapped.
C8_MapRequestPlaces ==
    [][(pc = "idle" /\ last'.op = "maprequest") =>
         LET cd == CM(Machine).current_desktop
             t  == Target(last'.i, cd)
             m  == current_monitor
         IN /\ pc' = "idle"
            /\ current_monitor' = m
            /\ PlacedOn(monitors', clients', m, t, last'.w)
            /\ t = cd => /\ monitors'[m].current_desktop = cd
                         /\ last'.w \in mapped'
                         /\ focus' = last'.w
                         /\ monitors'[m].current = RecordOf(clients', last'.w)
            /\ (t # cd /\ last'.f) => monitors'[m].current_desktop = t
            /\ (t # cd /\ ~last'.f) => /\ monitors'[m].current_desktop = cd
                                       /\ monitors'[m].current = monitors[m].current
                                       /\ last'.w \notin mapped']_vars

\* A window was placed by rule, without follow, on a hidden desktop that
\* already had a client.
C8_Witness ==
    /\ pc = "idle"
    /\ last.op = "maprequest"
    /\ last.i >= 0
    /\ last.i # CM(Machine).current_desktop
    /\ ~last.f
    /\ Len(ListOf(monitors, clients, current_monitor, last.i)) = 2
    /\ PlacedOn(monitors, clients, current_monitor, last.i, last.w)
    /\ last.w \notin mapped

\* SpecMove: the current client is sent to other desktops, the view
\* following the window or not as config.h says.
MoveConfigs == {c \in Configs : c.ATTACH_ASIDE /\ ~c.FOLLOW_MOUSE /\ ~c.CLICK_TO_FOCUS}

InitMove == Setup(MoveConfigs, {"client_to_desktop"})

NextMove ==
    \/ \E w \in Few : MapRequest(w, FALSE, NoRule, FALSE, 0)
    \/ \E w \in Few : DestroyNotify(w)
    \/ \E i \in Desktops : ChangeDesktop(i)
    \/ \E i \in Desktops : ClientToDesktop(i)
    \/ \E i \in {TILE, MONOCLE} : SwitchMode(i)
    \/ NextWin

SpecMove == InitMove /\ [][NextMove]_vars

\* The live records of window w.
RecordsOf(cl, w) == {a \in Addr : cl[a].live /\ cl[a].win = w}

\* C9: client_to_desktop(t) with a current client and t not the active
\* desktop leaves the current client's window with exactly one record,
\* linked in desktop t's list only; FOLLOW_WINDOW: t is the active desktop,
\* the window is mapped and the record is t's current client; otherwise the
\* window is unmapped and the active desktop is unchanged.
C9_ClientToDesktop ==
    [][(/\ pc = "idle" /\ last'.op = "client_to_desktop"
        /\ CM(Machine).current # NULL /\ last'.i # CM(Machine).current_desktop) =>
         LET m == current_monitor
             w == clients[monitors[m].current].win
             t == last'.i
         IN /\ pc' = "idle"
            /\ Cardinality(RecordsOf(clients', w)) = 1
            /\ Holders(monitors', clients', RecordOf(clients', w)) = {<<m, t>>}
            /\ IF config.FOLLOW_WINDOW
               THEN /\ monitors'[m].current_desktop = t
                    /\ w \in mapped'
                    /\ monitors'[m].current = RecordOf(clients', w)
               ELSE /\ monitors'[m].current_desktop = monitors[m].current_desktop
                    /\ w \notin mapped']_vars

\* SpecStray: SpecMove with rules that place windows on hidden desktops and
\* with _NET_ACTIVE_WINDOW messages, which make a client of a hidden desktop
\* the current client.
NextStray ==
    \/ \E w \in Few, r \in StayRules : MapRequest(w, FALSE, r, FALSE, 0)
    \/ \E w \in Few : DestroyNotify(w)
    \/ \E w \in Few : ClientMessage(w, "active", 0)
    \/ \E i \in Desktops : ChangeDesktop(i)
    \/ \E i \in Desktops : ClientToDesktop(i)

SpecStray == InitMove /\ [][NextStray]_vars

\* SpecSwitch: desktops in tile or monocle mode, with up to MaxWin clients
\* and the focus on any of them, are switched; the commands sent to the window
\* system by change_desktop are recorded.
InitSwitch == Setup(AsideConfigs, {"change_desktop", "cmds"})

NextSwitch ==
    \/ \E w \in Win : MapRequest(w, FALSE, NoRule, FALSE, 0)
    \/ \E w \in Win : DestroyNotify(w)
    \/ \E i \in Desktops : ChangeDesktop(i)
    \/ \E i \in {TILE, MONOCLE} : SwitchMode(i)
    \/ NextWin

SpecSwitch == InitSwitch /\ [][NextSwitch]_vars

\* The windows of the records of the list ch, in list order.
WindowsOf(cl, ch) == [k \in 1..Len(ch) |-> cl[ch[k]].win]

IsMap(c) == c[1] = "map"

\* The windows of the map commands among cmds, in the order issued.
MappedBy(cmds) == Then(SelectSeq(cmds, IsMap), LAMBDA q : [k \in 1..Len(q) |-> q[k][2]])

\* No command of cmds unmapping a window of olds precedes one mapping a
\* window of news.
MapsFirst(cmds, news, olds) ==
    \A p, q \in 1..Len(cmds) :
        (/\ cmds[p][1] = "unmap" /\ cmds[p][2] \in Range(olds)
         /\ cmds[q][1] = "map" /\ cmds[q][2] \in Range(news)) => q < p

\* change_desktop(last'.i) has run to its end from a desktop other than i.
Switched == pc = "idle" /\ last'.op = "change_desktop" /\ pc' = "idle"
            /\ last'.i # CM(Machine).current_desktop

\* C10 as stated: during change_desktop(i), i not the active desktop, every
\* map command for a window of desktop i precedes every unmap command for a
\* window of the previous desktop, the first window mapped is that of
\* desktop i's current client, and at the end every window of desktop i is
\* mapped and every window of the previous desktop is unmapped.
C10_CurrentMappedFirst ==
    [][Switched =>
         LET m    == current_monitor
             new  == Desk(monitors, m, last'.i)
             news == WindowsOf(clients, ListOf(monitors, clients, m, last'.i))
             olds == WindowsOf(clients, ListOf(monitors, clients, m, monitors[m].current_desktop))
         IN /\ MapsFirst(last'.cmds, news, olds)
            /\ new.current # NULL =>
                   /\ MappedBy(last'.cmds) # <<>>
                   /\ MappedBy(last'.cmds)[1] = clients[new.current].win
            /\ Range(news) \subseteq mapped'
            /\ Range(olds) \cap mapped' = {}]_vars

\* C10 amended: during change_desktop(i), i not the active desktop, every
\* map command for a window of desktop i precedes every unmap command for a
\* window of the previous desktop; the windows of desktop i are mapped in
\* list order from the head, all of them, unless desktop i is in monocle
\* mode and has a current client: then only the current client's window is
\* mapped; at the end every window of the previous desktop is unmapped.
C10_MapsThenUnmaps ==
    [][Switched =>
         LET m    == current_monitor
             new  == Desk(monitors, m, last'.i)
             news == WindowsOf(clients, ListOf(monitors, clients, m, last'.i))
             olds == WindowsOf(clients, ListOf(monitors, clients, m, monitors[m].current_desktop))
         IN /\ MapsFirst(last'.cmds, news, olds)
            /\ IF new.mode = MONOCLE /\ new.current # NULL
               THEN /\ MappedBy(last'.cmds) = <<clients[new.current].win>>
                    /\ clients[new.current].win \in mapped'
               ELSE /\ MappedBy(last'.cmds) = news
                    /\ Range(news) \subseteq mapped'
            /\ Range(olds) \cap mapped' = {}]_vars

\* change_desktop has switched from a desktop with a client to a desktop in
\* monocle mode with two clients, the focus on the second.
C10_Witness ==
    /\ pc = "idle"
    /\ last.op = "change_desktop"
    /\ last.i = CM(Machine).current_desktop
    /\ CM(Machine).previous_desktop # last.i
    /\ CM(Machine).mode = MONOCLE
    /\ Len(Chain(clients, CM(Machine).head)) = 2
    /\ CM(Machine).current # CM(Machine).head
    /\ MappedBy(last.cmds) = <<clients[CM(Machine).current].win>>
    /\ \E k \in 1..Len(last.cmds) : last.cmds[k][1] = "unmap"

\* SpecNoop: desktops and monitors with clients are switched, to themselves
\* too; the commands of both switches are recorded.
InitNoop == Setup(AsideConfigs, {"change_desktop", "change_monitor", "cmds"})

NextNoop ==
    \/ \E w \in Few : MapRequest(w, FALSE, NoRule, FALSE, 0)
    \/ \E i \in Desktops : ChangeDesktop(i)
    \/ \E i \in Monitors : ChangeMonitor(i)

SpecNoop == InitNoop /\ [][NextNoop]_vars

\* C11: change_desktop(i) with i the active desktop and change_monitor(m)
\* with m the active monitor change nothing (lists, focus pointers,
\* previous_desktop, previous_monitor, saved slots) and send no command to
\* the window system and no status line.
C11_SwitchToSelfIsNoOp ==
    [][(/\ pc = "idle"
        /\ \/ last'.op = "change_desktop" /\ last'.i = CM(Machine).current_desktop
           \/ last'.op = "change_monitor" /\ last'.i = current_monitor)
       => /\ UNCHANGED <<monitors, clients, current_monitor, previous_monitor, mapped, focus, pc>>
          /\ last'.cmds = <<>>]_vars

\* change_monitor to the active monitor was asked after both monitors had
\* been active, the active one showing a client.
C11_Witness ==
    /\ pc = "idle"
    /\ last.op = "change_monitor"
    /\ last.i = current_monitor
    /\ current_monitor # DEFAULT_MONITOR
    /\ CM(Machine).current # NULL
    /\ CM(Machine).current_desktop # DEFAULT_DESKTOP
    /\ last.cmds = <<>>

\* ------------------------------------------------------ the layout functions
\* The layout fn is called on a list whose k-th client is eligible iff el[k],
\* with the geometry g.
LayoutCall(fn, el, g) == [fn |-> fn, el |-> el, g |-> g, out |-> <<>>, done |-> FALSE]

\* tile(): hh is wh, plus the panel's height when the panel is hidden; cy is
\* the panel's height when it is shown at the top.
Geometries(modes, growths) ==
    [mode : modes, wx : {0}, wy : {0}, ww : {WW}, hh : {WH, WH + PANEL_HEIGHT},
     cy : {0, PANEL_HEIGHT}, master_size : {MasterSizeOf(m) : m \in modes}, growth : growths]

\* The layout function of the call returns.
Layout ==
    /\ ~probe.done
    /\ probe.fn \in {"stack", "grid"}
    /\ probe' = [probe EXCEPT !.done = TRUE,
                              !.out = IF probe.fn = "grid" THEN GridRects(probe.el, probe.g)
                                      ELSE StackRects(probe.el, probe.g)]
    /\ UNCHANGED <<monitors, clients, current_monitor, previous_monitor, mapped, focus,
                   display, config, pc, running, retval, status, dragarg, last, watch>>

\* SpecStack: stack() on lists of a master and 1..MaxStack stack clients,
\* all eligible, in both modes and for every growth up to GrowSpan.
MaxStack == 50
GrowSpan == MaxGrowth * GrowStep

InitStack ==
    /\ Boot(AsideConfigs, {})
    /\ probe \in {LayoutCall("stack", [k \in 1..(n + 1) |-> TRUE], g) :
                    n \in 1..MaxStack,
                    g \in {h \in Geometries({TILE, BSTACK}, (0 - GrowSpan)..GrowSpan) :
                             h.master_size = MasterSizeOf(h.mode)}}

SpecStack == InitStack /\ [][Layout]_vars

\* Along the stack axis of the mode: where a rectangle starts, and its length.
AxisPos(r, mode) == IF mode = BSTACK THEN r.x ELSE r.y

AxisLen(r, mode) == IF mode = BSTACK THEN r.w ELSE r.h

\* C12: in Tile and BottomStack layout the n >= 1 stack clients share the
\* stack axis of length z exactly: each gets floor((z-g)/n), the first one
\* (z-g) mod n + g more, which add up to z, and the windows sent to the
\* window system follow one another from the start of the axis to its end,
\* the borders of neighbours falling on each other, with no gap.
C12_StackFillsAxis ==
    (probe.fn = "stack" /\ probe.done) =>
        LET n    == Len(probe.el) - 1
            mode == probe.g.mode
            z0   == IF mode = BSTACK THEN probe.g.ww ELSE probe.g.hh
            from == IF mode = BSTACK THEN probe.g.wx ELSE probe.g.wy + probe.g.cy
            z    == StackShare(z0, probe.g.growth, n)
            d    == StackExtra(z0, probe.g.growth, n)
            out  == probe.out
        IN /\ n * z + d = z0
           /\ n > 1 => /\ z = (z0 - probe.g.growth) \div n
                       /\ d = ((z0 - probe.g.growth) % n) + probe.g.growth
           /\ Len(out) = n + 1
           /\ \A k \in 1..(n + 1) : out[k].c = k
           /\ AxisPos(out[2], mode) = from
           /\ AxisLen(out[2], mode) + 2 * BORDER_WIDTH = z + d
           /\ \A k \in 2..n :
                  AxisPos(out[k + 1], mode) = AxisPos(out[k], mode) + AxisLen(out[k], mode) + BORDER_WIDTH
           /\ \A k \in 3..n : AxisPos(out[k + 1], mode) - AxisPos(out[k], mode) = z
           /\ AxisPos(out[n + 1], mode) + AxisLen(out[n + 1], mode) + 2 * BORDER_WIDTH = from + z0

\* stack() has placed three stack clients on an axis that three does not
\* divide once the growth is taken out, with a growth other than zero.
C12_Witness ==
    /\ probe.fn = "stack"
    /\ probe.done
    /\ Len(probe.el) = 4
    /\ probe.g.growth > 0
    /\ StackExtra(probe.g.hh, probe.g.growth, 3) > probe.g.growth
    /\ probe.g.mode = TILE
    /\ Len(probe.out) = 4

\* SpecGrid: grid() on every list of up to MaxMixed clients with an eligible
\* one, and on lists of up to MaxGrid eligible clients.
MaxMixed == 5
MaxGrid == 30

BoolSeqs(len) == UNION {[1..k -> BOOLEAN] : k \in 1..len}

InitGrid ==
    /\ Boot(AsideConfigs, {})
    /\ probe \in {LayoutCall("grid", el, g) :
                    el \in {b \in BoolSeqs(MaxMixed) : \E k \in 1..Len(b) : b[k]}
                           \cup {[k \in 1..n |-> TRUE] : n \in 1..MaxGrid},
                    g \in Geometries({GRID}, {0})}

SpecGrid == InitGrid /\ [][Layout]_vars

\* C13: in Grid layout with n >= 1 eligible clients the column count is the
\* smallest integer whose square is >= n (2 when n = 5); with rows =
\* ceil(n/columns), columns * rows >= n and columns * (rows - 1) < n; every
\* eligible client, and no other, gets a cell (column, row) of its own with
\* the column index below the column count, and is sent to that column.
C13_GridShape ==
    (probe.fn = "grid" /\ probe.done) =>
        LET e     == EligibleOf(probe.el)
            n     == Len(e)
            cols  == GridCols(n)
            rows  == (n + cols - 1) \div cols
            cells == GridCells(n)
            cw    == (probe.g.ww - BORDER_WIDTH) \div cols
        IN /\ IF n = 5 THEN cols = 2
              ELSE cols * cols >= n /\ (cols - 1) * (cols - 1) < n
           /\ cols * rows >= n
           /\ cols * (rows - 1) < n
           /\ Len(probe.out) = n
           /\ Len(cells) = n
           /\ \A k \in 1..n :
                  /\ probe.out[k].c = e[k]
                  /\ cells[k].col \in 0..(cols - 1)
                  /\ cells[k].row \in 0..(rows - 1)
                  /\ probe.out[k].x = probe.g.wx + cells[k].col * cw
           /\ \A j, k \in 1..n :
                  j # k => <<cells[j].col, cells[j].row>> # <<cells[k].col, cells[k].row>>

\* grid() has placed the three eligible clients of a list of five whose
\* head is not eligible: two columns, the second one holding two clients.
C13_Witness ==
    /\ probe.fn = "grid"
    /\ probe.done
    /\ Len(probe.el) = 5
    /\ ~probe.el[1]
    /\ Len(probe.out) = 3
    /\ probe.out[1].x < probe.out[2].x
    /\ probe.out[2].x = probe.out[3].x
    /\ probe.out[2].y < probe.out[3].y

\* The clients (by their place among the eligible ones) that grid puts in
\* column col of n eligible clients.
ColumnOf(n, col) == {k \in 1..n : GridCells(n)[k].col = col}

\* C14 as stated: five eligible clients in Grid mode are laid out in 2
\* columns, the first column holding the first three clients, the second
\* column the other two.
C14_FiveFirstColumnThree ==
    (probe.fn = "grid" /\ probe.done /\ Len(probe.out) = 5) =>
        /\ GridCols(5) = 2
        /\ ColumnOf(5, 0) = {1, 2, 3}
        /\ ColumnOf(5, 1) = {4, 5}

\* C14 amended: five eligible clients in Grid mode are laid out in 2
\* columns, the first column holding 2 rows (the first two clients in list
\* order) and the second column 3 rows (the other three).
C14_FiveSecondColumnThree ==
    (probe.fn = "grid" /\ probe.done /\ Len(probe.out) = 5) =>
        LET cw == (probe.g.ww - BORDER_WIDTH) \div 2
        IN /\ GridCols(5) = 2
           /\ ColumnOf(5, 0) = {1, 2}
           /\ ColumnOf(5, 1) = {3, 4, 5}
           /\ \A k \in 1..5 : GridCells(5)[k].rows = IF k <= 2 THEN 2 ELSE 3
           /\ \A k \in 1..5 : probe.out[k].x = probe.g.wx + (IF k <= 2 THEN 0 ELSE cw)
           /\ \A j, k \in 3..5 : j < k => probe.out[j].y < probe.out[k].y
           /\ probe.out[1].y < probe.out[2].y

\* grid() has placed the five eligible clients of a list.
C14_Witness ==
    /\ probe.fn = "grid"
    /\ probe.done
    /\ Len(probe.el) = 5
    /\ Len(probe.out) = 5
    /\ probe.out[5].x > probe.out[1].x

\* SpecResize: the master area of a desktop in tile or bottom stack mode is
\* resized by FineStep and by MasterStep, both ways.
InitResize == Setup(AsideConfigs, {"resize_master"})

NextResize ==
    \/ MapRequest(1, FALSE, NoRule, FALSE, 0)
    \/ \E i \in {TILE, BSTACK} : SwitchMode(i)
    \/ \E i \in {0 - MasterStep, 0 - FineStep, FineStep, MasterStep} : ResizeMaster(i)

SpecResize == InitResize /\ [][NextResize]_vars

\* The length of the axis that the master area of a desktop in mode shares.
MasterAxis(mode) == IF mode = BSTACK THEN WH ELSE WW

\* C15: resize_master(delta) sets master_size to master_size + delta when
\* that size and the rest of the master axis (the work area's width, its
\* height in BottomStack) are both above MINWSZ, and otherwise leaves
\* master_size as it was; so master_size stays strictly between MINWSZ and
\* the axis length less MINWSZ.
C15_ResizeMasterBounds ==
    [][(pc = "idle" /\ last'.op = "resize_master") =>
         LET m   == CM(Machine)
             msz == m.master_size + last'.i
             new == monitors'[current_monitor].master_size
         IN /\ pc' = "idle"
            /\ new = IF msz > MINWSZ /\ MasterAxis(m.mode) - msz > MINWSZ
                     THEN msz ELSE m.master_size
            /\ new > MINWSZ
            /\ new < MasterAxis(m.mode) - MINWSZ
            /\ monitors'[current_monitor].mode = m.mode]_vars

\* resize_master has been asked to shrink, by FineStep, the master area of a
\* bottom stack desktop that is at its smallest.
C15_Witness ==
    /\ pc = "idle"
    /\ last.op = "resize_master"
    /\ last.i = 0 - FineStep
    /\ CM(Machine).mode = BSTACK
    /\ CM(Machine).master_size = MINWSZ + 1
    /\ CM(Machine).head # NULL

\* tile() on the active desktop of monitor m with growth g instead of its
\* own: the commands of stack().
StackOf(ms, cl, m, g) ==
    StackRects(FlagsOf(cl, ms[m].head), [GeometryOf(ms[m]) EXCEPT !.growth = g])

\* With growth g some stack client of the active desktop of monitor m, in
\* tile or bottom stack mode, is shorter than MINWSZ along the stack axis.
TooShort(ms, cl, m, g) ==
    /\ ms[m].mode \in {TILE, BSTACK}
    /\ \E k \in 2..Len(StackOf(ms, cl, m, g)) :
           AxisLen(StackOf(ms, cl, m, g)[k], ms[m].mode) < MINWSZ

\* SpecGrow: on a desktop in tile or bottom stack mode with up to MaxWin
\* clients the first stack client grows and shrinks by GrowStep.
InitGrow == Setup(AsideConfigs, {"resize_stack"})

NextGrow ==
    \/ \E w \in Win : MapRequest(w, FALSE, NoRule, FALSE, 0)
    \/ SwitchMode(BSTACK)
    \/ \E i \in {0 - GrowStep, GrowStep} : ResizeStack(i)

SpecGrow == InitGrow /\ [][NextGrow]_vars

\* C16 as stated: a resize_stack that would make a stack client shorter
\* than MINWSZ along the stack axis is rejected and leaves growth as it was;
\* after any resize_stack every stack client is at least MINWSZ long.
C16_ResizeStackRejects ==
    [][(pc = "idle" /\ last'.op = "resize_stack") =>
         LET m == current_monitor
         IN /\ monitors'[m].growth =
                   IF TooShort(monitors, clients, m, monitors[m].growth + last'.i)
                   THEN monitors[m].growth ELSE monitors[m].growth + last'.i
            /\ ~TooShort(monitors', clients', m, monitors'[m].growth)]_vars

\* C16 amended: resize_stack(delta) checks no bound: it always adds delta to
\* growth and re-tiles, master_size and mode staying as they were, whatever
\* length this leaves to the stack clients.
C16_ResizeStackUnchecked ==
    [][(pc = "idle" /\ last'.op = "resize_stack") =>
         LET m == current_monitor
         IN /\ pc' = "idle"
            /\ monitors'[m].growth = monitors[m].growth + last'.i
            /\ monitors'[m].master_size = monitors[m].master_size
            /\ monitors'[m].mode = monitors[m].mode
            /\ UNCHANGED <<clients, current_monitor, mapped>>]_vars

\* resize_stack has left a stack client of a desktop with two stack clients
\* shorter than MINWSZ.
C16_Witness ==
    /\ pc = "idle"
    /\ last.op = "resize_stack"
    /\ Len(Chain(clients, CM(Machine).head)) = 3
    /\ TooShort(monitors, clients, current_monitor, CM(Machine).growth)

\* ------------------------------------------------- borders after a focus change
\* SpecBorder: windows appear on the shown desktop or, by a rule, on desktop
\* 1; the focus, the desktop and the monitor change.
InitBorder ==
    Setup(AsideConfigs, {"maprequest", "next_win", "change_desktop", "change_monitor", "cmds",
                         "border"})

NextBorder ==
    \/ \E w \in Win, d \in {0 - 1, 1} : MapRequest(w, FALSE, [NoRule EXCEPT !.desktop = d], FALSE, 0)
    \/ NextWin
    \/ \E i \in Desktops : ChangeDesktop(i)
    \/ \E i \in Monitors : ChangeMonitor(i)

SpecBorder == InitBorder /\ [][NextBorder]_vars

\* The step is a watched handler in which update_current(c) set the focus,
\* and c is in the list shown on the monitor that is active afterwards.
Updated ==
    /\ pc = "idle" /\ pc' = "idle"
    /\ last'.op \in {"maprequest", "next_win", "change_desktop", "change_monitor"}
    /\ \E k \in 1..Len(last'.cmds) : last'.cmds[k][1] = "focus"
    /\ monitors'[current_monitor'].current
         \in Range(Chain(clients', monitors'[current_monitor'].head))

\* The records of the lists that the monitors show.
Shown(ms, cl) == UNION {Range(Chain(cl, ms[m].head)) : m \in Monitors}

\* C17 (as stated): after update_current(c) with c present, c is the one
\* tracked client with the focus border colour, every other tracked client has
\* the unfocus colour, and the only client of any desktop's list has border
\* width 0.
C17_OneFocusBorder ==
    [][Updated =>
         /\ \A a \in Addr : clients'[a].live =>
               display'.border[clients'[a].win].pixel
                 = IF a = monitors'[current_monitor'].current THEN "focus" ELSE "unfocus"
         /\ \A m \in Monitors, d \in Desktops :
               Len(ListOf(monitors', clients', m, d)) = 1 =>
                 display'.border[clients'[ListOf(monitors', clients', m, d)[1]].win].width = 0]_vars

\* C17 (amended): after update_current(c) with c present, among the clients
\* of the lists that the monitors show, c is the one with the focus border
\* colour and every other has the unfocus colour, and the only client of a
\* shown list has border width 0; the clients of the desktops that are not
\* shown keep the border they had.
C17_OneFocusBorderShown ==
    [][Updated =>
         /\ \A a \in Shown(monitors', clients') :
               display'.border[clients'[a].win].pixel
                 = IF a = monitors'[current_monitor'].current THEN "focus" ELSE "unfocus"
         /\ \A m \in Monitors :
               Len(Chain(clients', monitors'[m].head)) = 1 =>
                 display'.border[clients'[monitors'[m].head].win].width = 0
         /\ \A a \in Addr :
               (clients'[a].live /\ clients[a].live /\ a \notin Shown(monitors', clients')) =>
                 display'.border[clients'[a].win] = display.border[clients[a].win]]_vars

\* The focus was set among two shown clients while a client of a desktop that
\* is not shown still has the focus colour it had when its desktop was left.
C17_Witness ==
    /\ pc = "idle" /\ last.op = "next_win"
    /\ Len(Chain(clients, CM(Machine).head)) = 2
    /\ display.border[clients[CM(Machine).current].win].pixel = "focus"
    /\ \E a \in Addr : /\ clients[a].live /\ a \notin Shown(monitors, clients)
                        /\ display.border[clients[a].win].pixel = "focus"

\* ------------------------------------------- stacking order after a focus change
\* SpecOrder: tiled, floating and fullscreen windows appear on the shown
\* desktop, and the focus moves through the list.
InitOrder == Setup(AsideConfigs, {"maprequest", "next_win", "cmds", "order"})

NextOrder ==
    \/ \E w \in Win, f \in BOOLEAN, p \in {0, 2} :
         MapRequest(w, FALSE, [NoRule EXCEPT !.floating = f], FALSE, p)
    \/ \E w \in Win : DestroyNotify(w)
    \/ NextWin

SpecOrder == InitOrder /\ [][NextOrder]_vars

\* The band of a client: 2 floating or transient, 1 fullscreen, 0 tiled.
Band(r) == IF r.isfloating \/ r.istransient THEN 2 ELSE IF r.isfullscrn THEN 1 ELSE 0

\* The place of window w in the stacking order, from the bottom.
Pos(order, w) == CHOOSE k \in 1..Len(order) : order[k] = w

\* C18: after update_current(c) the windows of the active desktop are
\* stacked, bottom to top, tiled, then fullscreen, then floating or transient:
\* no window of a lower band is above one of a higher band, and the current
\* client is the topmost window of its own band.
C18_StackingBands ==
    [][Updated =>
         \A a, b \in Range(Chain(clients', monitors'[current_monitor'].head)) :
            /\ Band(clients'[a]) < Band(clients'[b])
                 => Pos(display'.order, clients'[a].win) < Pos(display'.order, clients'[b].win)
            /\ (b = monitors'[current_monitor'].current /\ Band(clients'[a]) = Band(clients'[b]))
                 => Pos(display'.order, clients'[a].win) <= Pos(display'.order, clients'[b].win)]_vars

\* ------------------------------------------------------- the loop of a drag
\* SpecHold: windows appear and ask for a geometry, in the outer loop and
\* during a drag, and are destroyed; a button press on a window starts a
\* move or a resize, the pointer moves, other events arrive, and a button or
\* key event ends the drag.
InitHold ==
    Setup(AsideConfigs, {"maprequest", "maprequest_tracked", "configurerequest", "motionnotify",
                         "destroynotify", "enternotify", "release", "cmds"})

NextHold ==
    \/ \E w \in Few : MapRequest(w, FALSE, NoRule, FALSE, 0)
    \/ \E w \in Few : DestroyNotify(w)
    \/ \E w \in Few : ConfigureRequest(w)
    \/ \E w \in Few, b \in {"move", "resize"}, r \in BOOLEAN : ButtonPress(w, TRUE, b, r)
    \/ \E a \in Monitors : DragMotion(a)
    \/ \E w \in Few, k \in {"destroynotify", "enternotify"} : DragIgnored(k, w)
    \/ DragRelease

SpecHold == InitHold /\ [][NextHold]_vars

\* How many commands of kind k are in cmds.
Count(cmds, k) == Cardinality({j \in 1..Len(cmds) : cmds[j][1] = k})

\* C19: during a drag a map request and a configure request are handled as
\* in the outer loop and the drag goes on; an event of another kind (here a
\* destroy or an enter notification) reaches no handler: no manager state
\* changes and no command is sent; the first button or key event ends the
\* drag, with the pointer grab released exactly once and the outer loop
\* waiting again; and until then the loop goes on receiving events, so that
\* the drag ends when that event arrives.
C19_DragLoop ==
    [][Dragging =>
            /\ pc' \in {"drag", "idle"}
            /\ last'.op \in {"destroynotify", "enternotify"} =>
                  /\ UNCHANGED <<monitors, clients, current_monitor, previous_monitor, focus,
                                 pc, dragarg>>
                  /\ last'.cmds = <<>>
            /\ last'.op = "maprequest" =>
                  /\ monitors' = maprequest(Created(Machine, last'.w), last'.w, TRUE, FALSE,
                                            NoRule, FALSE, 0).monitors
                  /\ Tracked(clients', last'.w) /\ last'.w \in mapped'
                  /\ pc' = "drag"
            /\ last'.op = "configurerequest" =>
                  /\ Count(last'.cmds, "configure") = 1
                  /\ pc' = "drag"
            /\ last'.op \in {"maprequest", "maprequest_tracked", "configurerequest",
                              "motionnotify", "destroynotify", "enternotify"} =>
                  Count(last'.cmds, "ungrab") = 0
            /\ last'.op = "release" =>
                  /\ pc' = "idle"
                  /\ Count(last'.cmds, "ungrab") = 1
                  /\ last'.cmds[1][1] = "ungrab"]_vars

\* ------------------------------------------------- entering and leaving a drag
\* SpecGrab: plain and fullscreen windows appear, also during a drag; a
\* button press on a window asks for a move or a resize, and the pointer grab
\* succeeds or fails; the pointer moves and a button or key event ends the
\* drag. During the drag last keeps the window of the button press.
InitGrab == Setup(AsideConfigs, {"buttonpress", "release", "cmds", "keep"})

NextGrab ==
    \/ \E w \in Few, p \in {0, 2} : MapRequest(w, FALSE, NoRule, FALSE, p)
    \/ \E w \in Few, b \in {"move", "resize"}, r \in BOOLEAN : ButtonPress(w, TRUE, b, r)
    \/ \E a \in Monitors : DragMotion(a)
    \/ DragRelease

SpecGrab == InitGrab /\ [][NextGrab]_vars

\* The windows of the commands of kind k in cmds, in order.
WindowsBy(cmds, k) ==
    Then(SelectSeq(cmds, LAMBDA c : c[1] = k), LAMBDA s : [j \in 1..Len(s) |-> s[j][2]])

\* The windows of the clients of the list ch that the layouts place.
PlacedWindows(cl, ch) ==
    Then(SelectSeq(ch, LAMBDA a : Eligible(cl[a])), LAMBDA s : [j \in 1..Len(s) |-> cl[s[j]].win])

\* C20: when the pointer grab fails, mousemotion changes nothing: after the
\* button press (which has made the pressed client current and focused) no
\* flag and no list has changed, no window is grabbed, moved or resized, and
\* the outer loop waits. When the grab succeeds the drag is entered with the
\* client floating and not fullscreen; and when the drag ends the window that
\* was dragged is floating and not fullscreen, the grab has been released
\* once, and the active desktop has been tiled again.
C20_GrabFailsOrDragFloats ==
    [][/\ (Running /\ last'.op = "buttonpress" /\ Tracked(clients, last'.w) /\ ~last'.f) =>
            /\ pc' = "idle"
            /\ clients' = clients /\ mapped' = mapped
            /\ current_monitor' = current_monitor
            /\ View(monitors')
                 = View([monitors EXCEPT ![current_monitor].current = RecordOf(clients, last'.w)])
            /\ focus' = last'.w
            /\ \A k \in {"grab", "ungrab", "move", "resize", "move_resize", "fullscreen_geometry",
                          "drawbars"} : Count(last'.cmds, k) = 0
       /\ (Running /\ last'.op = "buttonpress" /\ Tracked(clients, last'.w) /\ last'.f) =>
            /\ pc' = "drag"
            /\ Count(last'.cmds, "grab") = 1
            /\ clients'[RecordOf(clients', last'.w)].isfloating
            /\ ~clients'[RecordOf(clients', last'.w)].isfullscrn
       /\ (Dragging /\ last'.op = "release") =>
            /\ pc' = "idle"
            /\ Tracked(clients', last.w)
            /\ clients'[RecordOf(clients', last.w)].isfloating
            /\ ~clients'[RecordOf(clients', last.w)].isfullscrn
            /\ Count(last'.cmds, "ungrab") = 1
            /\ WindowsBy(last'.cmds, "move_resize")
                 = PlacedWindows(clients', Chain(clients', monitors'[current_monitor'].head))]_vars

\* A drag has just ended: the grab is released, a window floats and is not
\* fullscreen, and the tiling has placed the one tiled window.
C20_Witness ==
    /\ pc = "idle" /\ last.op = "release"
    /\ Count(last.cmds, "ungrab") = 1
    /\ Count(last.cmds, "move_resize") = 1
    /\ \E a \in Addr : clients[a].live /\ clients[a].isfloating /\ ~clients[a].isfullscrn
\* ------------------------------------------------------------ the bindings
Keysyms == 1..2

\* keys[] of config.h: KeysOnce has one entry for a key and its modifiers,
\* KeysTwice has two entries for keysym 1 with mod1, an entry without a
\* function, and an entry whose mask holds the Num_Lock bit.
KeysOnce ==
    << [mod |-> {"mod1"}, keysym |-> 1, func |-> "next_win", arg |-> 0],
       [mod |-> {"mod1", "shift"}, keysym |-> 1, func |-> "change_desktop", arg |-> 1],
       [mod |-> {"mod1"}, keysym |-> 2, func |-> "change_desktop", arg |-> 0] >>

KeysTwice ==
    << [mod |-> {"mod1"}, keysym |-> 1, func |-> "change_desktop", arg |-> 1],
       [mod |-> {"mod1"}, keysym |-> 2, func |-> "NULL", arg |-> 0],
       [mod |-> {"mod1"}, keysym |-> 1, func |-> "switch_mode", arg |-> MONOCLE],
       [mod |-> {"mod1", "mod2"}, keysym |-> 2, func |-> "change_desktop", arg |-> 0] >>

\* buttons[] of config.h: as distributed, and with a second function on
\* button 1.
ButtonsOnce ==
    << [mask |-> {"mod1"}, button |-> 1, func |-> "mousemotion", arg |-> MOVE],
       [mask |-> {"mod1"}, button |-> 3, func |-> "mousemotion", arg |-> RESIZE] >>

ButtonsTwice ==
    << [mask |-> {"mod1"}, button |-> 1, func |-> "next_win", arg |-> 0],
       [mask |-> {"mod1"}, button |-> 3, func |-> "mousemotion", arg |-> RESIZE],
       [mask |-> {"mod1"}, button |-> 1, func |-> "mousemotion", arg |-> MOVE] >>

KeyConfigs ==
    {c @@ [keys |-> t[1], buttons |-> t[2], numlockmask |-> n] :
        c \in AsideConfigs, t \in {<<KeysOnce, ButtonsOnce>>, <<KeysTwice, ButtonsTwice>>},
        n \in {{}, {"mod2"}}}

\* The modifier states of the key and button events.
KeyStates == {{"mod1", "lock"}, {"mod1", "mod2"}, {"mod1", "shift"}}

ButtonStates == {{"mod1"}, {"mod1", "lock", "mod2"}}

\* SpecKeys: windows appear, keys and buttons are pressed, and a drag that a
\* button press has started ends.
InitKeys == Setup(KeyConfigs, {"keypress", "buttonpress", "cmds"})

NextKeys ==
    \/ \E w \in Few : MapRequest(w, FALSE, NoRule, FALSE, 0)
    \/ \E k \in Keysyms, st \in KeyStates : KeyPress(k, st)
    \/ \E w \in Few, b \in {1, 3}, st \in ButtonStates, r \in BOOLEAN :
          ButtonPressTable(w, b, st, r)
    \/ DragRelease

SpecKeys == InitKeys /\ [][NextKeys]_vars

\* A mask without the lock bit and the Num_Lock bit.
Strip(mask) == mask \ ({"lock"} \cup config.numlockmask)

\* The entries of keys[], in table order, that a key press matches.
KeyMatching(keysym, state) ==
    SelectSeq([i \in 1..Len(config.keys) |-> i], LAMBDA i :
        /\ config.keys[i].func # "NULL"
        /\ config.keys[i].keysym = keysym
        /\ Strip(config.keys[i].mod) = Strip(state))

\* The entries of buttons[], in table order, that a button press matches.
ButtonMatching(detail, state) ==
    SelectSeq([i \in 1..Len(config.buttons) |-> i], LAMBDA i :
        /\ config.buttons[i].func # "NULL"
        /\ config.buttons[i].button = detail
        /\ Strip(config.buttons[i].mask) = Strip(state))

FirstOf(s) == IF s = <<>> THEN <<>> ELSE <<s[1]>>

InitMsg == Setup(AsideConfigs, {"fullscreen", "active", "other"})

NextMsg ==
    \/ \E w \in Few, r \in StayRules, p \in {0, 2} : MapRequest(w, FALSE, r, FALSE, p)
    \/ \E w \in Few, k \in {"fullscreen", "active", "other"}, a \in 0..2 : ClientMessage(w, k, a)
    \/ \E i \in Desktops : ChangeDesktop(i)

SpecMsg == InitMsg /\ [][NextMsg]_vars

\* The flags of a client record.
Flags(r) == <<r.isfullscrn, r.isfloating, r.istransient, r.isurgent>>

\* C22: a state message naming the fullscreen atom for a tracked client
\* leaves its fullscreen flag false for action 0, true for action 1 and
\* negated for action 2, and changes the flags of no other client; an
\* activate message for a tracked client makes it the current client.
C22_StateMessage ==
    [][/\ (last'.op = "fullscreen" /\ Tracked(clients, last'.w)) =>
            /\ clients'[RecordOf(clients, last'.w)].isfullscrn =
                  CASE last'.i = 0 -> FALSE
                    [] last'.i = 1 -> TRUE
                    [] last'.i = 2 -> ~clients[RecordOf(clients, last'.w)].isfullscrn
            /\ \A a \in Addr \ {RecordOf(clients, last'.w)} :
                  clients'[a].live = clients[a].live /\ Flags(clients'[a]) = Flags(clients[a])
       /\ (last'.op = "active" /\ Tracked(clients, last'.w)) =>
            monitors'[current_monitor'].current = RecordOf(clients, last'.w)]_vars

\* A toggle has cleared the fullscreen flag of a client while another client
\* is fullscreen.
C22_Witness ==
    /\ last.op = "fullscreen" /\ last.i = 2 /\ Tracked(clients, last.w)
    /\ ~clients[RecordOf(clients, last.w)].isfullscrn
    /\ \E a \in Addr : clients[a].live /\ clients[a].isfullscrn

\* ----------------------------------------------------- configure requests
\* The requests: for a tracked or an untracked window, with some of the
\* fields, a position at, below or above the top of the screen, and a size
\* within the monitor or larger than it.
Requests ==
    {[NoValues(w) EXCEPT !.value_mask = k, !.x = 3, !.y = y, !.width = z[1], !.height = z[2],
                         !.border_width = 1] :
        w \in Win, k \in {{"x", "y"}, {"width", "height"}, {"y", "border_width"}},
        y \in {0 - 1, 0, 5}, z \in {<<40, 30>>, <<WW + 20, WH + 20>>}}

\* SpecConf: windows appear, some of them fullscreen, the panel is hidden and
\* shown, and windows ask for a geometry.
InitConf == Setup(AsideConfigs, {"configurerequest", "cmds"})

NextConf ==
    \/ \E w \in Few, p \in {0, 2} : MapRequest(w, FALSE, NoRule, FALSE, p)
    \/ TogglePanel
    \/ \E ev \in Requests : ConfigureEvent(ev)

SpecConf == InitConf /\ [][NextConf]_vars

\* The values of the configure commands of cmds.
Configured(cmds) ==
    Then(SelectSeq(cmds, LAMBDA c : c[1] = "configure"), LAMBDA s : [j \in 1..Len(s) |-> s[j][3]])

\* C23: a configure request for a tracked fullscreen client sets the window
\* to the fullscreen geometry and applies none of the requested values; any
\* other request applies exactly the fields of its value mask, each with the
\* requested value, y offset by the panel height when a top panel is shown,
\* and width and height no larger than the monitor's; the client lists and
\* the clients' flags do not change.
C23_ConfigureRequest ==
    [][last'.op = "configurerequest" =>
         /\ IF Tracked(clients, last'.w) /\ clients[RecordOf(clients, last'.w)].isfullscrn
            THEN /\ Configured(last'.cmds) = <<>>
                 /\ <<"fullscreen_geometry", last'.w>> \in Range(last'.cmds)
            ELSE /\ Len(Configured(last'.cmds)) = 1
                 /\ DOMAIN Configured(last'.cmds)[1] = last'.i.value_mask
                 /\ \A f \in last'.i.value_mask :
                       CASE f = "x" -> Configured(last'.cmds)[1][f] = last'.i.x
                         [] f = "y" -> Configured(last'.cmds)[1][f] =
                                          last'.i.y + (IF TOP_PANEL /\ monitors[current_monitor].showpanel
                                                       THEN PANEL_HEIGHT ELSE 0)
                         [] f = "width" ->
                               /\ Configured(last'.cmds)[1][f] <= WW
                               /\ last'.i.width <= WW =>
                                     Configured(last'.cmds)[1][f] = last'.i.width
                         [] f = "height" ->
                               /\ Configured(last'.cmds)[1][f] <= WH
                               /\ last'.i.height <= WH =>
                                     Configured(last'.cmds)[1][f] = last'.i.height
                         [] f = "border_width" ->
                               Configured(last'.cmds)[1][f] = last'.i.border_width
                         [] OTHER -> TRUE
         /\ \A m \in Monitors, d \in Desktops :
               ListOf(monitors', clients', m, d) = ListOf(monitors, clients, m, d)
         /\ \A a \in Addr : clients'[a].live = clients[a].live
                            /\ Flags(clients'[a]) = Flags(clients[a])]_vars

\* ---------------------------------------------------------- the status line
\* SpecStatus: windows appear on the desktop shown or on desktop 1 and become
\* urgent; desktop 1 is shown, the monitors are switched and the layout of
\* a desktop is set to MONOCLE.
InitStatus ==
    Setup(AsideConfigs, {"maprequest", "propertynotify", "change_desktop", "change_monitor",
                         "switch_mode", "print"})

NextStatus ==
    \/ \E w \in Few, r \in {q \in StayRules : q.desktop # 0} : MapRequest(w, FALSE, r, FALSE, 0)
    \/ \E w \in Few : PropertyNotify(w, TRUE)
    \/ ChangeDesktop(1)
    \/ \E i \in Monitors : ChangeMonitor(i)
    \/ SwitchMode(MONOCLE)

SpecStatus == InitStatus /\ [][NextStatus]_vars

\* What the fprintf calls of cmds wrote, call by call.
Printed(cmds) == WindowsBy(cmds, "print")

\* The group of desktop d of monitor m in a line written in the state
\* (ms, cl, cm), with the separator sep after it.
Group(ms, cl, cm, m, d, sep) ==
    <<ToString(m), ":", IF m = cm THEN "1" ELSE "0", ":", ToString(d), ":",
      ToString(Len(ListOf(ms, cl, m, d))), ":", ToString(Desk(ms, m, d).mode), ":",
      IF ms[m].current_desktop = d THEN "1" ELSE "0", ":",
      IF \E a \in Range(ListOf(ms, cl, m, d)) : cl[a].isurgent THEN "1" ELSE "0", sep>>

\* C24: what a handler writes is made of lines of MONITORS * DESKTOPS
\* groups, one for each desktop of each monitor, monitor by monitor and
\* desktop by desktop, each with its seven fields separated by colons, a
\* space after every group but the last of a line and a newline after that
\* one; and the last line written tells of each desktop the monitor, whether
\* it is the active monitor, the desktop, the length of its list, its mode,
\* whether it is its monitor's active desktop, and whether a client of its
\* list is urgent.
C24_StatusLine ==
    [][last'.op # "-" =>
         /\ Len(Printed(last'.cmds)) % (MONITORS * DESKTOPS) = 0
         /\ \A j \in 1..Len(Printed(last'.cmds)) :
               /\ Len(Printed(last'.cmds)[j]) = 14
               /\ Printed(last'.cmds)[j][1] = ToString(((j - 1) % (MONITORS * DESKTOPS)) \div DESKTOPS)
               /\ Printed(last'.cmds)[j][5] = ToString((j - 1) % DESKTOPS)
               /\ \A k \in {2, 4, 6, 8, 10, 12} : Printed(last'.cmds)[j][k] = ":"
               /\ Printed(last'.cmds)[j][14] =
                     IF j % (MONITORS * DESKTOPS) = 0 THEN "\n" ELSE " "
               /\ j > Len(Printed(last'.cmds)) - MONITORS * DESKTOPS =>
                     Printed(last'.cmds)[j] =
                        Group(monitors', clients', current_monitor',
                              ((j - 1) % (MONITORS * DESKTOPS)) \div DESKTOPS, (j - 1) % DESKTOPS,
                              IF j % (MONITORS * DESKTOPS) = 0 THEN "\n" ELSE " ")]_vars

\* A line has been written, with monitor 1 active, that tells of a desktop
\* in MONOCLE mode that is not shown and has two clients, one of them urgent.
C24_Witness ==
    /\ last.op # "-" /\ Len(Printed(last.cmds)) >= MONITORS * DESKTOPS
    /\ current_monitor = 1
    /\ \E m \in Monitors, d \in Desktops :
          /\ monitors[m].current_desktop # d
          /\ Desk(monitors, m, d).mode = MONOCLE
          /\ Len(ListOf(monitors, clients, m, d)) = 2
          /\ \E a \in Range(ListOf(monitors, clients, m, d)) : clients[a].isurgent

\* --------------------------------------------- when the status is written
\* SpecFlush: windows appear, become urgent, are closed by killclient and
\* are destroyed; the desktop and the layout mode are switched.
InitFlush ==
    Setup(AsideConfigs, {"maprequest", "propertynotify", "destroynotify", "killclient",
                         "change_desktop", "switch_mode", "print"})

NextFlush ==
    \/ \E w \in Few : MapRequest(w, FALSE, NoRule, FALSE, 0)
    \/ \E w \in Few : PropertyNotify(w, TRUE)
    \/ \E w \in Few : DestroyNotify(w)
    \/ KillClient
    \/ \E i \in Desktops : ChangeDesktop(i)
    \/ SwitchMode(MONOCLE)

SpecFlush == InitFlush /\ [][NextFlush]_vars

\* The status line of the state (ms, cl, cm), group by group.
Line(ms, cl, cm) ==
    [j \in 1..(MONITORS * DESKTOPS) |->
        Group(ms, cl, cm, (j - 1) \div DESKTOPS, (j - 1) % DESKTOPS,
              IF j = MONITORS * DESKTOPS THEN "\n" ELSE " ")]

KeysQuit ==
    << [mod |-> {"mod1"}, keysym |-> 1, func |-> "quit", arg |-> 0],
       [mod |-> {"mod1"}, keysym |-> 2, func |-> "quit", arg |-> 1],
       [mod |-> {"mod1", "shift"}, keysym |-> 1, func |-> "change_desktop", arg |-> 1] >>

KeysQuitThen ==
    << [mod |-> {"mod1"}, keysym |-> 1, func |-> "next_win", arg |-> 0],
       [mod |-> {"mod1"}, keysym |-> 2, func |-> "quit", arg |-> 1],
       [mod |-> {"mod1"}, keysym |-> 2, func |-> "change_desktop", arg |-> 1] >>

QuitConfigs ==
    {c @@ [keys |-> t, buttons |-> ButtonsOnce, numlockmask |-> {}] :
        c \in AsideConfigs, t \in {KeysQuit, KeysQuitThen}}

\* The most children of the root that cleanup's tree query tells of.
MaxChildren == 3

\* SpecEnd: windows appear, keys and buttons are pressed, a drag ends, the
\* connection breaks, and run() returns to main() once a key has quit.
InitEnd == Setup(QuitConfigs, {"keypress", "return", "error", "cmds"})

NextEnd ==
    \/ \E w \in Few : MapRequest(w, FALSE, NoRule, FALSE, 0)
    \/ \E k \in Keysyms, st \in {{"mod1"}, {"mod1", "shift"}} : KeyPress(k, st)
    \/ \E w \in Few, r \in BOOLEAN : ButtonPressTable(w, 1, {"mod1"}, r)
    \/ DragRelease
    \/ \E reply \in BOOLEAN, n \in 0..MaxChildren : RunReturns(reply, n)
    \/ ConnectionError

SpecEnd == InitEnd /\ [][NextEnd]_vars

\* The commands of kind among cmds.
Sent(cmds, kind) == \E k \in 1..Len(cmds) : cmds[k][1] = kind

\* The arguments of the quit entries that a key press has invoked, in order.
Quits(cmds) ==
    SelectSeq([k \in 1..Len(WindowsBy(cmds, "call")) |->
                  config.keys[WindowsBy(cmds, "call")[k]]], LAMBDA e : e.func = "quit")

\* C26: a key press that invokes quit still invokes every later entry that
\* matches it and leaves running unset with quit's argument in retval; run()
\* then takes no further event: the one step left is main's, in which cleanup
\* runs (the keys are released, the focus is given up), the connection is
\* closed and the process ends with quit's argument as its status.
C26_QuitEndsRun ==
    [][/\ (last'.op = "keypress" /\ Quits(last'.cmds) # <<>>) =>
            /\ WindowsBy(last'.cmds, "call") = KeyMatching(last'.w, last'.i)
            /\ pc' = "idle" /\ ~running'
            /\ retval' = Quits(last'.cmds)[Len(Quits(last'.cmds))].arg
       /\ (pc = "idle" /\ ~running) =>
            /\ last'.op = "return"
            /\ Sent(last'.cmds, "ungrab_key") /\ Sent(last'.cmds, "focus")
            /\ Sent(last'.cmds, "disconnect")
            /\ pc' = "exited" /\ status' = retval
            /\ UNCHANGED <<monitors, clients, retval>>]_vars

\* C27: when the connection breaks while run() or the loop of a drag waits
\* for an event, the loop ends and cleanup runs (the keys are released, the
\* focus is given up) before the process ends.
C27_ErrorCleansUp ==
    [][last'.op = "error" =>
          /\ pc' = "exited"
          /\ Sent(last'.cmds, "ungrab_key") /\ Sent(last'.cmds, "focus")]_vars

\* -------------------------------------------------------- queries unanswered
\* SpecLost: windows appear, their class, transient and state queries all
\* unanswered; hints change; buttons start drags; and the attributes query of
\* a map request, the hints query of a property notification and the
\* geometry query of a drag go unanswered.
InitLost == Setup(AsideConfigs, {"maprequest", "maprequest_unanswered", "property_unanswered",
                                 "buttonpress"})

NextLost ==
    \/ \E w \in Few : MapRequest(w, FALSE, NoRule, FALSE, 0)
    \/ \E w \in Few : MapRequestUnanswered(w)
    \/ \E w \in Few : PropertyNotify(w, TRUE)
    \/ \E w \in Win : PropertyUnanswered(w)
    \/ \E w \in Few, r \in BOOLEAN : ButtonPress(w, TRUE, "move", r)
    \/ DragRelease

SpecLost == InitLost /\ [][NextLost]_vars

\* The records that were live keep their window and their flags.
OthersKept ==
    \A a \in Addr : clients[a].live =>
        [clients'[a] EXCEPT !.next = NULL] = [clients[a] EXCEPT !.next = NULL]

\* C28: a query without a reply ends the work for its window and no more. A
\* map request whose attributes query is unanswered changes nothing; one
\* whose class, transient and state queries are unanswered manages the window
\* unclassified; a property notification whose hints query is unanswered
\* changes no record; a button press whose geometry query is unanswered
\* starts no drag. In each case every other client is as it was and the loop
\* that waited for the event waits for the next one.
C28_NoReplyAbandons ==
    [][/\ last'.op = "maprequest_unanswered" =>
            /\ pc' = pc
            /\ UNCHANGED <<monitors, clients, current_monitor, mapped>>
       /\ last'.op = "maprequest" =>
            /\ pc' = pc /\ OthersKept
            /\ Tracked(clients', last'.w)
            /\ clients'[RecordOf(clients', last'.w)]
                  = [ZeroClient EXCEPT !.win = last'.w, !.live = TRUE,
                                       !.monitor = clients'[RecordOf(clients', last'.w)].monitor]
       /\ last'.op = "property_unanswered" =>
            /\ pc' = "idle"
            /\ Pointers(monitors') = Pointers(monitors)
            /\ UNCHANGED <<clients, current_monitor, mapped>>
       /\ (last'.op = "buttonpress" /\ ~last'.f) =>
            /\ pc' = "idle"
            /\ UNCHANGED <<clients, current_monitor, mapped>>]_vars

\* ------------------------------------------------------- reordering the list
\* SpecSwap: windows appear, the desktop and the mode change, and the current
\* client is moved up, moved down and swapped with the master.
InitSwap == Setup(AsideConfigs, {"move_up", "move_down", "swap_master"})

NextSwap ==
    \/ \E w \in Win : MapRequest(w, FALSE, NoRule, FALSE, 0)
    \/ \E i \in Desktops : ChangeDesktop(i)
    \/ SwitchMode(MONOCLE)
    \/ MoveUp
    \/ MoveDown
    \/ SwapMaster

SpecSwap == InitSwap /\ [][NextSwap]_vars

\* The list of the active desktop before and after a step.
Active == Chain(clients, monitors[current_monitor].head)

ActiveNext == Chain(clients', monitors'[current_monitor'].head)

\* The place of c in the sequence s.
Place(s, c) == CHOOSE i \in 1..Len(s) : s[i] = c

\* s with the elements at i and j exchanged.
Exchange(s, i, j) ==
    [k \in 1..Len(s) |-> IF k = i THEN s[j] ELSE IF k = j THEN s[i] ELSE s[k]]

\* s without c.
Without(s, c) == SelectSeq(s, LAMBDA a : a # c)

\* A move of the current client that finds nothing to do or is one of at
\* least two clients.
Moves(op) == last'.op = op /\ monitors[current_monitor].current # NULL /\ Len(Active) >= 2

\* What every move keeps: the manager waits for the next event, current is
\* the same client, the list is acyclic, and no other list has changed.
MoveKeeps ==
    /\ pc' = "idle"
    /\ monitors'[current_monitor'].current = monitors[current_monitor].current
    /\ ~Cyclic(clients', monitors'[current_monitor'].head)
    /\ current_monitor' = current_monitor
    /\ \A m \in Monitors, d \in Desktops :
          (m # current_monitor \/ d # monitors[m].current_desktop)
             => ListOf(monitors', clients', m, d) = ListOf(monitors, clients, m, d)

\* C29 as stated: move_up exchanges the current client with its predecessor
\* and move_down with its successor (with its one neighbour when it is at
\* that end of the list); every other client keeps its position; the list is
\* acyclic and current is the same client.
C29_AdjacentExchange ==
    [][/\ (last'.op \in {"move_up", "move_down"}
             /\ (monitors[current_monitor].current = NULL \/ Len(Active) < 2))
           => ActiveNext = Active /\ MoveKeeps
       /\ Moves("move_up") =>
            /\ MoveKeeps
            /\ ActiveNext = Then(Place(Active, monitors[current_monitor].current), LAMBDA k :
                                Exchange(Active, k, IF k > 1 THEN k - 1 ELSE k + 1))
       /\ Moves("move_down") =>
            /\ MoveKeeps
            /\ ActiveNext = Then(Place(Active, monitors[current_monitor].current), LAMBDA k :
                                Exchange(Active, k, IF k < Len(Active) THEN k + 1 ELSE k - 1))]_vars

\* C29: move_up exchanges the current client with its predecessor and
\* move_down with its successor; at the end of the list that has no such
\* neighbour the current client goes round to the other end (move_up makes
\* the head the last client, move_down makes the last client the head) and
\* every other client keeps its order; the list is acyclic and current is the
\* same client.
C29_ExchangeOrWrap ==
    [][/\ (last'.op \in {"move_up", "move_down"}
             /\ (monitors[current_monitor].current = NULL \/ Len(Active) < 2))
           => ActiveNext = Active /\ MoveKeeps
       /\ Moves("move_up") =>
            /\ MoveKeeps
            /\ ActiveNext = Then(Place(Active, monitors[current_monitor].current), LAMBDA k :
                                IF k > 1 THEN Exchange(Active, k, k - 1)
                                ELSE Append(Tail(Active), Active[1]))
       /\ Moves("move_down") =>
            /\ MoveKeeps
            /\ ActiveNext = Then(Place(Active, monitors[current_monitor].current), LAMBDA k :
                                IF k < Len(Active) THEN Exchange(Active, k, k + 1)
                                ELSE <<Active[k]>> \o SubSeq(Active, 1, k - 1))]_vars

\* move_up has taken the head of a list of three round to its end.
C29_Witness ==
    /\ last.op = "move_up" /\ pc = "idle"
    /\ Len(Active) = 3
    /\ monitors[current_monitor].current = Active[3]

\* C30: swap_master on a list of two or more clients in a mode other than
\* MONOCLE returns; a current client that was not the head is the head
\* afterwards and the others follow in the order they had; a current client
\* that was the head has changed places with its successor; and current is
\* the head afterwards.
C30_SwapMaster ==
    [][(Moves("swap_master") /\ monitors[current_monitor].mode # MONOCLE) =>
         Then(monitors[current_monitor].current, LAMBDA c :
            /\ pc' = "idle"
            /\ ActiveNext = IF c # Active[1] THEN <<c>> \o Without(Active, c)
                            ELSE Exchange(Active, 1, 2)
            /\ monitors'[current_monitor'].current = monitors'[current_monitor'].head
            /\ ~Cyclic(clients', monitors'[current_monitor'].head))]_vars

\* swap_master has made the last of three clients the master: the windows are
\* in the order 3, 1, 2.
C30_Witness ==
    /\ last.op = "swap_master" /\ pc = "idle"
    /\ [k \in 1..Len(Active) |-> clients[Active[k]].win] = <<3, 1, 2>>
    /\ monitors[current_monitor].current = monitors[current_monitor].head

\* ------------------------------------------------- stack() on mixed lists
\* SpecMixed: stack() on every list of 2..MaxMixed clients, eligible or not
\* in every combination, in both modes, with and without growth.
InitMixed ==
    /\ Boot(AsideConfigs, {})
    /\ probe \in {LayoutCall("stack", el, g) :
                    el \in {b \in BoolSeqs(MaxMixed) : Len(b) >= 2},
                    g \in {h \in Geometries({TILE, BSTACK}, {0, GrowStep}) :
                             h.master_size = MasterSizeOf(h.mode)}}

SpecMixed == InitMixed /\ [][Layout]_vars

\* C31: stack() on a list of two or more clients sends one rectangle to every
\* eligible client and none to another; the first eligible client gets the
\* master area; when other eligible clients follow, the stack axis is
\* divided by their number, and their rectangles follow one another along
\* the axis, each in a slot of its own that lies inside the work area.
C31_StackSlots ==
    (probe.fn = "stack" /\ probe.done /\ EligibleOf(probe.el) # <<>>) =>
        LET e    == EligibleOf(probe.el)
            mode == probe.g.mode
            z0   == IF mode = BSTACK THEN probe.g.ww ELSE probe.g.hh
            from == IF mode = BSTACK THEN probe.g.wx ELSE probe.g.wy + probe.g.cy
            out  == probe.out
        IN /\ Len(out) = Len(e)
           /\ \A k \in 1..Len(e) : out[k].c = e[k]
           /\ Len(e) >= 2 =>
                 /\ StackCount(probe.el) = Len(e) - 1
                 /\ (IF mode = BSTACK THEN out[1].h ELSE out[1].w)
                       = probe.g.master_size - BORDER_WIDTH
                 /\ \A k \in 2..Len(e) :
                        /\ AxisPos(out[k], mode) >= from
                        /\ AxisPos(out[k], mode) + AxisLen(out[k], mode) + 2 * BORDER_WIDTH
                              <= from + z0
                 /\ \A k \in 2..(Len(e) - 1) :
                        AxisPos(out[k + 1], mode)
                           >= AxisPos(out[k], mode) + AxisLen(out[k], mode) + BORDER_WIDTH

\* ------------------------------------------- removing a background client
\* SpecAway: windows appear on the shown desktop or, by a rule, on another
\* one; the desktop and the monitor change; and windows are destroyed,
\* whichever desktop and monitor hold their clients.
InitAway == Setup(AsideConfigs, {"destroynotify", "where"})

NextAway ==
    \/ \E w \in Win, r \in {q \in StayRules : q.desktop # 0} : MapRequest(w, FALSE, r, FALSE, 0)
    \/ ChangeDesktop(1)
    \/ \E i \in Monitors : ChangeMonitor(i)
    \/ \E w \in Win : DestroyNotify(w)

SpecAway == InitAway /\ [][NextAway]_vars

\* The desktop shown on the active monitor.
OnShow == <<current_monitor, monitors[current_monitor].current_desktop>>

\* A destroy notification has had removeclient remove the record Victim,
\* which the list of desktop md, and no other list, held.
RemovedFrom(md) ==
    /\ pc = "idle" /\ last'.op = "destroynotify"
    /\ Victim # NULL
    /\ Holders(monitors, clients, Victim) = {md}

\* C32: removeclient applied to a client of a desktop that is not shown on
\* the active monitor unlinks it from its list and leaves the active monitor,
\* every monitor's active and previous desktop, and the order and the
\* current client of the active desktop's list as they were.
C32_RemoveElsewhere ==
    [][\A md \in (Monitors \X Desktops) \ {OnShow} :
          RemovedFrom(md) =>
              /\ pc' = "idle"
              /\ ListOf(monitors', clients', md[1], md[2])
                    = Without(ListOf(monitors, clients, md[1], md[2]), Victim)
              /\ current_monitor' = current_monitor
              /\ \A m \in Monitors :
                     /\ monitors'[m].current_desktop = monitors[m].current_desktop
                     /\ monitors'[m].previous_desktop = monitors[m].previous_desktop
              /\ ActiveNext = Active
              /\ monitors'[current_monitor'].current = monitors[current_monitor].current]_vars

\* C33: when a client that is not the current client of its desktop is
\* removed, the desktop's current client is the same before and after.
C33_CurrentKept ==
    [][\A md \in Monitors \X Desktops :
          (RemovedFrom(md) /\ Desk(monitors, md[1], md[2]).current # Victim) =>
              /\ pc' = "idle"
              /\ Desk(monitors', md[1], md[2]).current
                    = Desk(monitors, md[1], md[2]).current]_vars

\* A destroy notification has removed a client from a list that is not shown
\* on the active monitor, whose own list holds two clients.
C32_Witness ==
    /\ last.op = "destroynotify" /\ last.i = 2 /\ ~last.f
    /\ pc = "idle"
    /\ Len(Active) = 2
    /\ current_monitor = 1
    /\ monitors[1].current_desktop = 1

\* ------------------------------------------------- windows of hidden desktops
\* SpecShown: windows ask to be mapped on every desktop; the user switches
\* desktops, takes the monocle mode, steps through the windows and moves
\* the current client to another desktop, with and without FOLLOW_WINDOW;
\* windows ask to be activated.
InitShown ==
    Setup({c \in Configs : c.ATTACH_ASIDE /\ ~c.FOLLOW_MOUSE /\ ~c.CLICK_TO_FOCUS},
          {})

NextShown ==
    \/ \E w \in Few, r \in StayRules : MapRequest(w, FALSE, r, FALSE, 0)
    \/ \E i \in Desktops : ChangeDesktop(i)
    \/ \E i \in Desktops : ClientToDesktop(i)
    \/ NextWin
    \/ SwitchMode(MONOCLE)
    \/ \E w \in Few : ClientMessage(w, "active", 0)

SpecShown == InitShown /\ [][NextShown]_vars

\* The windows of the clients linked in the lists of the desktops that
\* their monitors do not show.
HiddenWindows ==
    {clients[a].win : a \in UNION {Range(ListOf(monitors, clients, md[1], md[2])) :
                                      md \in {x \in Monitors \X Desktops :
                                                 x[2] # monitors[x[1]].current_desktop}}}

\* C34: whenever the manager waits for an event, no window of a client that
\* is linked in the list of a desktop its monitor does not show is mapped.
C34_HiddenUnmapped == pc = "idle" => HiddenWindows \cap mapped = {}

\* ------------------------------------------------- tile() on every list
\* SpecTiles: windows, plain, floating by rule, transient or fullscreen, are
\* mapped on the active desktop and destroyed; the user takes the modes
\* that divide the work area and grows the first stack window. Every
\* handler ends with tile(), and nothing but tile()'s layouts computes.
InitTiles == Setup(AsideConfigs, {})

\* What a new window is: the rule's floating, the transient hint and the
\* _NET_WM_STATE reply.
Kinds ==
    {<<FALSE, FALSE, 1>>, <<TRUE, FALSE, 1>>, <<FALSE, TRUE, 1>>, <<FALSE, FALSE, 2>>}

NextTiles ==
    \/ \E w \in Few, k \in Kinds :
           MapRequest(w, FALSE, [NoRule EXCEPT !.floating = k[1]], k[2], k[3])
    \/ \E i \in {TILE, BSTACK, GRID} : SwitchMode(i)
    \/ ResizeStack(GrowStep)
    \/ \E w \in Few : DestroyNotify(w)

SpecTiles == InitTiles /\ [][NextTiles]_vars

\* C35: tile() completes for every list, mode and growth: no handler ends
\* in a division or a modulo by zero.
C35_TileCompletes == pc = "idle"

\* ------------------------------------------------- the window that is dragged
\* SpecPull: windows are mapped, also while a drag goes on (mousemotion's
\* loop hands map requests to maprequest), and dragged with the mouse to
\* move or to resize them. last keeps the pressed window until the first
\* motion of the drag, whose commands it then records.
InitPull == Setup(AsideConfigs, {"buttonpress", "motionnotify", "cmds", "keep"})

NextPull ==
    \/ \E w \in Few : MapRequest(w, FALSE, NoRule, FALSE, 0)
    \/ \E w \in Few, b \in {"move", "resize"} : ButtonPress(w, TRUE, b, TRUE)
    \/ \E a \in Monitors : DragMotion(a)
    \/ DragRelease

SpecPull == InitPull /\ [][NextPull]_vars

\* The windows that the move and resize commands of cmds name.
Pulled(cmds) == {cmds[k][2] : k \in {j \in 1..Len(cmds) : cmds[j][1] \in {"move", "resize"}}}

\* C36: the first motion of a drag, whatever map requests the drag has
\* forwarded before it, moves or resizes the window that was pressed to
\* start the drag (buttonpress makes its client the current one before
\* mousemotion is entered), and no other.
C36_DragTarget ==
    [][(pc = "drag" /\ last.w # 0 /\ last'.op = "motionnotify")
          => Pulled(last'.cmds) = {last.w}]_vars

\* ------------------------------------------------- commands with no current client
\* mousemotion called with arg where no button press made a client current
\* (bound in keys[]): if (!CM->current) return;
MouseMotion(arg) ==
    /\ Running
    /\ Pressed(mousemotion_enter(Machine, TRUE), "mousemotion", 0, arg, TRUE)

\* SpecBare: windows are mapped, the user switches monitors, some of which
\* are empty, and gives every command that acts on the current client.
InitBare ==
    Setup(AsideConfigs, {"killclient", "client_to_desktop", "client_to_monitor", "move_up",
                         "move_down", "next_win", "prev_win", "swap_master", "mousemotion"})

NextBare ==
    \/ \E w \in Few : MapRequest(w, FALSE, NoRule, FALSE, 0)
    \/ \E i \in Monitors : ChangeMonitor(i)
    \/ KillClient
    \/ \E i \in Desktops : ClientToDesktop(i)
    \/ \E i \in Monitors : ClientToMonitor(i)
    \/ MoveUp
    \/ MoveDown
    \/ NextWin
    \/ PrevWin
    \/ SwapMaster
    \/ \E arg \in {MOVE, RESIZE} : MouseMotion(arg)
    \/ DragRelease

SpecBare == InitBare /\ [][NextBare]_vars

\* C37: every command that acts on the current client, given when the
\* active desktop has no current client, returns and leaves the lists, the
\* desktops, the monitors, the mapped windows and the focus as they were.
C37_NoCurrentNoOp ==
    [][(pc = "idle" /\ CM(Machine).current = NULL /\ last'.op # "-")
          => /\ pc' = "idle"
             /\ View(monitors') = View(monitors)
             /\ UNCHANGED <<clients, current_monitor, previous_monitor, mapped, focus>>]_vars

\* ------------------------------------------------- rotate_filled
\* rotate_filled: the index of its test and of its call for the step n.
RotateIndex(S, n) == CMod(DESKTOPS + CM(S).current_desktop + n, DESKTOPS)

\* rotate_filled from the test of its loop on, for arg->i = i: the loop reads
\* the saved slot CM->desktops[(DESKTOPS + CM->current_desktop + n) % DESKTOPS],
\* and % of a negative sum is negative: the read is then outside desktops[].
RECURSIVE rotate_filled_from(_, _, _)
rotate_filled_from(S, i, n) ==
    IF S.fault # "none" THEN S
    ELSE IF n < DESKTOPS /\ RotateIndex(S, n) \notin Desktops THEN [S EXCEPT !.fault = "ub"]
    ELSE IF n < DESKTOPS /\ CM(S).desktops[RotateIndex(S, n)].head = NULL
    THEN rotate_filled_from(S, i, n + i)
    ELSE change_desktop(S, RotateIndex(S, n))

rotate_filled(S, i) == rotate_filled_from(S, i, i)

RotateFilled(i) ==
    Running /\ Handled(rotate_filled(Machine, i), "rotate_filled", 0, i, FALSE)

\* SpecTurn: windows are mapped on every desktop of the active monitor and
\* destroyed; the user switches desktops and jumps to the next and to the
\* previous desktop that has clients.
InitTurn == Setup(AsideConfigs, {"rotate_filled"})

NextTurn ==
    \/ \E w \in Win, r \in StayRules : MapRequest(w, FALSE, r, FALSE, 0)
    \/ \E w \in Win : DestroyNotify(w)
    \/ \E i \in Desktops : ChangeDesktop(i)
    \/ \E i \in {1, 0 - 1} : RotateFilled(i)

SpecTurn == InitTurn /\ [][NextTurn]_vars

\* The desktop k steps from the active one in direction dir.
Beside(dir, k) ==
    (DESKTOPS * DESKTOPS + monitors[current_monitor].current_desktop + dir * k) % DESKTOPS

\* The numbers of steps in direction dir that lead to another desktop
\* whose list has clients.
Filled(dir) ==
    {k \in 1..(DESKTOPS - 1) : ListOf(monitors, clients, current_monitor, Beside(dir, k)) # <<>>}

\* C38: rotate_filled returns in both directions, having read no slot
\* outside desktops[]; the active desktop is then the nearest one in the
\* direction asked that has clients, or the same as before when no other
\* desktop has clients.
C38_RotateFilled ==
    [][(pc = "idle" /\ last'.op = "rotate_filled")
          => /\ pc' = "idle"
             /\ current_monitor' = current_monitor
             /\ monitors'[current_monitor].current_desktop
                   = IF Filled(last'.i) = {} THEN monitors[current_monitor].current_desktop
                     ELSE Beside(last'.i, CHOOSE k \in Filled(last'.i) :
                                              \A j \in Filled(last'.i) : k <= j)]_vars

\* ------------------------------------------------- the flags of a moved client
\* SpecCarry: windows, plain, floating by rule, transient or fullscreen, are
\* mapped and set or clear their urgency hint; the user moves the current
\* client to another desktop or monitor and switches monitors.
InitCarry == Setup(AsideConfigs, {"client_to_desktop", "client_to_monitor"})

NextCarry ==
    \/ \E w \in Few, k \in Kinds :
           MapRequest(w, FALSE, [NoRule EXCEPT !.floating = k[1]], k[2], k[3])
    \/ \E w \in Few, urgent \in BOOLEAN : PropertyNotify(w, urgent)
    \/ \E i \in Desktops : ClientToDesktop(i)
    \/ \E i \in Monitors : monitors[current_monitor].current # NULL /\ ClientToMonitor(i)
    \/ \E i \in Monitors : ChangeMonitor(i)

SpecCarry == InitCarry /\ [][NextCarry]_vars

\* The window of the current client.
Moved == clients[monitors[current_monitor].current].win

\* C39: after client_to_desktop or client_to_monitor the record that tracks
\* the window of the client that was current has the urgent, transient,
\* fullscreen and floating flags that the current client had before.
C39_FlagsKept ==
    [][(/\ pc = "idle"
        /\ last'.op \in {"client_to_desktop", "client_to_monitor"}
        /\ monitors[current_monitor].current # NULL)
          => /\ pc' = "idle"
             /\ Tracked(clients', Moved)
             /\ Flags(clients'[RecordOf(clients', Moved)])
                   = Flags(clients[monitors[current_monitor].current])]_vars

\* ------------------------------------------------- the observers
\* A call of wintoclient(w); last.i is the record returned.
WinToClient(w) ==
    /\ Running
    /\ Handled(wintoclient(Machine, w), "wintoclient", w, wintoclient(Machine, w).ret, FALSE)

\* A call of desktopinfo().
DesktopInfo ==
    Running /\ Handled(desktopinfo(Machine), "desktopinfo", 0, 0, FALSE)

\* SpecLook: windows are mapped on every desktop of both monitors, the
\* user switches desktops and monitors and takes the bottom-stack mode; a
\* window is looked up and the status line is written in every state.
InitLook == Setup(AsideConfigs, {"wintoclient", "desktopinfo"})

NextLook ==
    \/ \E w \in Few : MapRequest(w, FALSE, NoRule, FALSE, 0)
    \/ \E i \in Desktops : ChangeDesktop(i)
    \/ \E i \in Monitors : ChangeMonitor(i)
    \/ SwitchMode(BSTACK)
    \/ \E w \in Win : WinToClient(w)
    \/ DesktopInfo

SpecLook == InitLook /\ [][NextLook]_vars

\* C40: a call of wintoclient or of desktopinfo returns with the active
\* monitor, every monitor's active and previous desktop and every desktop's
\* head, current, prevfocus, mode, master_size and growth as they were, and
\* no record changed; wintoclient returns a record that holds the window and
\* is linked in the list of some desktop of some monitor when there is one,
\* and none otherwise.
C40_Observers ==
    [][(pc = "idle" /\ last'.op \in {"wintoclient", "desktopinfo"})
          => /\ pc' = "idle"
             /\ current_monitor' = current_monitor
             /\ View(monitors') = View(monitors)
             /\ clients' = clients
             /\ last'.op = "wintoclient" =>
                   IF \E a \in Addr : clients[a].win = last'.w /\ Holders(monitors, clients, a) # {}
                   THEN /\ last'.i # NULL
                        /\ clients[last'.i].win = last'.w
                        /\ Holders(monitors, clients, last'.i) # {}
                   ELSE last'.i = NULL]_vars

\* wintoclient has found the record of a window on a desktop that is not
\* shown of the monitor that is not active, whose mode is not the default;
\* the active desktop has a client too.
C40_Witness ==
    /\ pc = "idle"
    /\ last.op = "wintoclient"
    /\ last.i # NULL
    /\ clients[last.i].monitor # current_monitor
    /\ \E d \in Desktops :
           /\ d # monitors[clients[last.i].monitor].current_desktop
           /\ Holders(monitors, clients, last.i) = {<<clients[last.i].monitor, d>>}
           /\ Desk(monitors, clients[last.i].monitor, d).mode = BSTACK
    /\ monitors[current_monitor].current # NULL

====
